---- MODULE Spec2Model ----
(***************************************************************************)
(* Verification model of the youtube-strategy dashboards: the popularity   *)
(* scoring of fetched videos, ISO-8601 duration parsing, the Shorts        *)
(* percentile classification and the search handler of the main App, the   *)
(* CSV export, the ontology client (cache, fallbacks, retryFetch), the     *)
(* ontology store with the refresh of its dashboard, and the API-key       *)
(* dialog.                                                                 *)
(*                                                                         *)
(* JavaScript numbers are modelled exactly.  A counter is a record         *)
(* [nan, n]; an unrounded score is a rational [nan, num, den] with         *)
(* den > 0; a score after toFixed(2) is a record [nan, c] holding the      *)
(* value in hundredths.                                                    *)
(***************************************************************************)
EXTENDS Integers, Sequences, FiniteSets, TLC

VARIABLES
    scPc,        \* scoring: position of the getVideoDetails map callback
    scItem,      \* scoring: the raw API item (statistics as received)
    scVideo,     \* scoring: the VideoData built from scItem
    durPc,       \* duration: position of the parseDuration call
    durIn,       \* duration: the argument, and the components it encodes
    durOut,      \* duration: the outcome of the call
    shPc,        \* shorts: position of the Shorts analysis
    shVideos,    \* shorts: the fetched VideoData batch and subscriberCount
    shShorts,    \* shorts: the ShortsData returned by analyzeShortsPerformance
    shSummary,   \* shorts: the ShortsSummary returned by generateShortsSummary
    flPc,        \* filter: position of the filterByVideoType call
    flIn,        \* filter: the arguments of the call
    flOut,       \* filter: the list the call returned
    appRun,          \* App: the handleSearch run in flight and what it captured
    isLoading,       \* App: useState isLoading
    error,           \* App: useState error
    analysisResult,  \* App: useState analysisResult
    aiStrategy,      \* App: useState aiStrategy
    shortsAnalysis,  \* App: useState shortsAnalysis
    csvPc,       \* CSV: position of the export
    csvIn,       \* CSV: the rows to export
    csvOut,      \* CSV: the exported text
    clNow,  \* client: Date.now() in ticks
    clCache,  \* client: the cache entry of ontology-snapshot
    clCalls,  \* client: the fetchOntologySnapshot calls in flight
    clSeq,  \* client: number of calls, cache writes and clears so far
    clCleared, \* client: clSeq at the last clearCache
    rtPc,  \* retry: position of the retryFetch call
    rtRetryAttempts,  \* retry: this.config.retryAttempts
    rtAttempt,  \* retry: the loop variable attempt
    rtLastError,  \* retry: the variable lastError
    rtOut,  \* retry: what the call returned or threw
    rtLog, \* retry: the fetches and sleeps of the call so far
    stLoading,  \* store: loading
    stError,  \* store: error
    stSnapshot,  \* store: snapshot
    stEntities,  \* store: entities
    stLastUpdated,  \* store: lastUpdated
    stLoads,  \* store: the loadOntology calls in flight
    apMounted,  \* dashboard App: mounted, effects have run
    autoRefreshEnabled,  \* dashboard App: useState autoRefreshEnabled
    refreshInFlightRef,  \* dashboard App: refreshInFlightRef.current
    isRefreshing,  \* dashboard App: useState isRefreshing
    lastRefreshTime, \* dashboard App: useState lastRefreshTime
    seRuns,  \* search: the handleSearch runs in flight
    seStarted,  \* search: number of handleSearch runs started so far
    seIsLoading,  \* search: isLoading as the runs write it
    seError,  \* search: the run whose error is shown, 0 for null
    seResult,  \* search: the run whose analysisResult is shown, 0 for null
    seStrategy, \* search: the run whose aiStrategy is shown, 0 for none
    kyInput,  \* API-key dialog: useState apiKeyInput
    kyStatus,  \* API-key dialog: useState testStatus
    kyTests,  \* API-key dialog: the testApiKey calls in flight
    kyTested  \* API-key dialog: the key of the test that wrote testStatus last

vars == <<scPc, scItem, scVideo, durPc, durIn, durOut, shPc, shVideos, shShorts,
          shSummary, flPc, flIn, flOut,
          appRun, isLoading, error, analysisResult, aiStrategy, shortsAnalysis,
          csvPc, csvIn, csvOut,
          clNow, clCache, clCalls, clSeq, clCleared,
          rtPc, rtRetryAttempts, rtAttempt, rtLastError, rtOut, rtLog,
          stLoading, stError, stSnapshot, stEntities, stLastUpdated, stLoads, apMounted, autoRefreshEnabled, refreshInFlightRef, isRefreshing, lastRefreshTime,
          seRuns, seStarted, seIsLoading, seError, seResult, seStrategy,
          kyInput, kyStatus, kyTests, kyTested>>

scVars == <<scPc, scItem, scVideo>>

durVars == <<durPc, durIn, durOut>>

shVars == <<shPc, shVideos, shShorts, shSummary>>

flVars == <<flPc, flIn, flOut>>

appVars == <<appRun, isLoading, error, analysisResult, aiStrategy, shortsAnalysis>>

csvVars == <<csvPc, csvIn, csvOut>>

\* The variables of the scoring, duration, Shorts, filter and App parts
coreVars == <<scVars, durVars, shVars, flVars, appVars>>

clVars == <<clNow, clCache, clCalls, clSeq, clCleared>>

rtVars == <<rtPc, rtRetryAttempts, rtAttempt, rtLastError, rtOut, rtLog>>

stVars == <<stLoading, stError, stSnapshot, stEntities, stLastUpdated, stLoads, apMounted, autoRefreshEnabled, refreshInFlightRef, isRefreshing, lastRefreshTime>>

seVars == <<seRuns, seStarted, seIsLoading, seError, seResult, seStrategy>>

kyVars == <<kyInput, kyStatus, kyTests, kyTested>>

\* The variables of the other parts
restVars == <<csvVars, clVars, rtVars, stVars, seVars, kyVars>>

besidesCsv == <<coreVars, clVars, rtVars, stVars, seVars, kyVars>>

besidesCl == <<coreVars, csvVars, rtVars, stVars, seVars, kyVars>>

besidesRt == <<coreVars, csvVars, clVars, stVars, seVars, kyVars>>

besidesSt == <<coreVars, csvVars, clVars, rtVars, seVars, kyVars>>

besidesSe == <<coreVars, csvVars, clVars, rtVars, stVars, kyVars>>

besidesKy == <<coreVars, csvVars, clVars, rtVars, stVars, seVars>>

\* ------------------------------------------------------------------------
\* Bounds of the explored inputs
\* ------------------------------------------------------------------------
MaxCount == 3

MaxDurLen == 5

MaxPart == 3

MaxBatch == 4

MaxRanked == 10

MaxTie == 2

MaxAppBatch == 3

MaxFilterBatch == 3

MaxSummaryBatch == 3

MaxTagged == 2

MaxFieldLen == 2

MaxClock == 4

MaxSeq == 6

\* cacheTTL in ticks of clNow
CacheTTL == 2

MaxAttempts == 4

MaxSearches == 3

\* ------------------------------------------------------------------------
\* JavaScript numbers
\* ------------------------------------------------------------------------
NaN == [nan |-> TRUE, n |-> 0]

Num(k) == [nan |-> FALSE, n |-> k]

Abs(k) == IF k < 0 THEN -k ELSE k

\* ------------------------------------------------------------------------
\* constants: POPULARITY_WEIGHTS (weights in tenths)
\* ------------------------------------------------------------------------
LIKE_WEIGHT == 6

COMMENT_WEIGHT == 4

SCORE_MULTIPLIER == 1000

\* ------------------------------------------------------------------------
\* Raw statistics of an API item: a field is absent, a decimal string
\* (possibly with a leading minus sign) or a string without leading digits.
\* ------------------------------------------------------------------------
CountValues == (0..MaxCount) \cup {5, 7, 10, 50, 100, 200, 500, 1000}

RawStats ==
    {[kind |-> "absent", n |-> 0], [kind |-> "garbage", n |-> 0]}
        \cup {[kind |-> "digits", n |-> k] : k \in CountValues \cup {-1}}

\* parseInt(x || '0', 10)
parseStat(raw) ==
    CASE raw.kind = "absent" -> Num(0)
      [] raw.kind = "garbage" -> NaN
      [] OTHER -> Num(raw.n)

\* ------------------------------------------------------------------------
\* constants: calculatePopularityScore.  The result is the unrounded
\* rational (likeCount * 0.6 + commentCount * 0.4) / viewCount * 1000.
\* ------------------------------------------------------------------------
Rational(num, den) ==
    IF den < 0 THEN [nan |-> FALSE, num |-> -num, den |-> -den]
               ELSE [nan |-> FALSE, num |-> num, den |-> den]

RationalNaN == [nan |-> TRUE, num |-> 0, den |-> 1]

calculatePopularityScoreSwapped(viewCount, likeCount, commentCount) ==
    IF ~viewCount.nan /\ viewCount.n = 0 THEN Rational(0, 1)
    ELSE IF viewCount.nan \/ likeCount.nan \/ commentCount.nan THEN RationalNaN
    ELSE Rational((likeCount.n * COMMENT_WEIGHT + commentCount.n * LIKE_WEIGHT)
                      * (SCORE_MULTIPLIER \div 10), viewCount.n)

calculatePopularityScoreMinusComments(viewCount, likeCount, commentCount) ==
    IF ~viewCount.nan /\ viewCount.n = 0 THEN Rational(0, 1)
    ELSE IF viewCount.nan \/ likeCount.nan \/ commentCount.nan THEN RationalNaN
    ELSE Rational((likeCount.n * LIKE_WEIGHT - commentCount.n * COMMENT_WEIGHT)
                      * (SCORE_MULTIPLIER \div 10), viewCount.n)

calculatePopularityScore(viewCount, likeCount, commentCount) ==
    IF ~viewCount.nan /\ viewCount.n = 0 THEN Rational(0, 1)
    ELSE IF viewCount.nan \/ likeCount.nan \/ commentCount.nan THEN RationalNaN
    ELSE Rational((likeCount.n * LIKE_WEIGHT + commentCount.n * COMMENT_WEIGHT)
                      * (SCORE_MULTIPLIER \div 10), viewCount.n)

\* services/youtubeService: viewCount > 0 ? (...) * 1000 : 0
inlineScore(viewCount, likeCount, commentCount) ==
    IF viewCount.nan \/ viewCount.n <= 0 THEN Rational(0, 1)
    ELSE IF likeCount.nan \/ commentCount.nan THEN RationalNaN
    ELSE Rational((likeCount.n * 6 + commentCount.n * 4) * 100, viewCount.n)

\* parseFloat(score.toFixed(2)): the hundredth nearest to the score, the
\* larger magnitude on a tie; NaN stays NaN.
toFixed2Truncating(score) ==
    IF score.nan THEN [nan |-> TRUE, c |-> 0]
    ELSE [nan |-> FALSE, c |-> (score.num * 100) \div score.den]

toFixed2(score) ==
    IF score.nan THEN [nan |-> TRUE, c |-> 0]
    ELSE LET mag == (2 * Abs(score.num) * 100 + score.den) \div (2 * score.den)
         IN  [nan |-> FALSE, c |-> IF score.num < 0 THEN -mag ELSE mag]

\* ------------------------------------------------------------------------
\* Strings are sequences of one-character strings.
\* ------------------------------------------------------------------------
DigitChar == <<"0", "1", "2", "3", "4", "5", "6", "7", "8", "9">>

Digits == {DigitChar[i] : i \in 1..10}

DigitVal(ch) == (CHOOSE i \in 1..10 : DigitChar[i] = ch) - 1

\* String(n) for n >= 0
RECURSIVE ToDigits(_)
ToDigits(n) ==
    IF n < 10 THEN <<DigitChar[n + 1]>>
    ELSE ToDigits(n \div 10) \o <<DigitChar[(n % 10) + 1]>>

\* Number of digit characters of s starting at position p
RECURSIVE DigitRun(_, _)
DigitRun(s, p) ==
    IF p <= Len(s) /\ s[p] \in Digits THEN 1 + DigitRun(s, p + 1) ELSE 0

RECURSIVE DigitsValue(_)
DigitsValue(s) ==
    IF s = <<>> THEN 0
    ELSE 10 * DigitsValue(SubSeq(s, 1, Len(s) - 1)) + DigitVal(s[Len(s)])

\* parseInt(s, 10) of a string without sign or leading blanks: the value of
\* its leading digits, NaN when it has none.
parseInt(s) ==
    LET k == DigitRun(s, 1)
    IN  IF k = 0 THEN NaN ELSE Num(DigitsValue(SubSeq(s, 1, k)))

\* String.prototype.trim() === ''
TrimIsEmpty(s) == \A i \in 1..Len(s) : s[i] = " "

\* ------------------------------------------------------------------------
\* utils: parseDuration and the expression
\* /PT(?:(\d+)H)?(?:(\d+)M)?(?:(\d+)S)?/ it matches with.
\* ------------------------------------------------------------------------
Undefined == [defined |-> FALSE, text |-> <<>>]

\* One optional group (\d+)<unit> tried at position p.
Group(s, p, unit) ==
    LET k == DigitRun(s, p)
    IN  IF k >= 1 /\ p + k <= Len(s) /\ s[p + k] = unit
        THEN [hit |-> TRUE, digits |-> SubSeq(s, p, p + k - 1),
              whole |-> SubSeq(s, p, p + k), next |-> p + k + 1]
        ELSE [hit |-> FALSE, digits |-> <<>>, whole |-> <<>>, next |-> p]

\* First position at which "PT" occurs, 0 when it does not occur.
FindPT(s) ==
    LET at == {i \in 1..(Len(s) - 1) : s[i] = "P" /\ s[i + 1] = "T"}
    IN  IF at = {} THEN 0 ELSE CHOOSE i \in at : \A j \in at : i <= j

\* String.prototype.match with the expression above: the groups hold the
\* digits when inner is TRUE (utils) and the digits with their unit letter
\* when it is FALSE (services/youtubeService).
Match(s, inner) ==
    LET at == FindPT(s)
        h == Group(s, at + 2, "H")
        m == Group(s, h.next, "M")
        sec == Group(s, m.next, "S")
        cap(g) == IF g.hit
                  THEN [defined |-> TRUE, text |-> IF inner THEN g.digits ELSE g.whole]
                  ELSE Undefined
    IN  IF at = 0
        THEN [found |-> FALSE, start |-> 0, end |-> 0,
              g1 |-> Undefined, g2 |-> Undefined, g3 |-> Undefined]
        ELSE [found |-> TRUE, start |-> at, end |-> sec.next,
              g1 |-> cap(h), g2 |-> cap(m), g3 |-> cap(sec)]

Returned(k) == [thrown |-> "none", value |-> k]

Thrown(e) == [thrown |-> e, value |-> 0]

\* parseInt(g || '0', 10)
parseGroup(g) == IF g.defined /\ g.text # <<>> THEN parseInt(g.text) ELSE Num(0)

\* (parseInt(g) || 0)
parseGroupOrZero(g) ==
    LET k == IF g.defined THEN parseInt(g.text) ELSE NaN
    IN  IF k.nan \/ k.n = 0 THEN Num(0) ELSE k

parseDurationMinutesAsHours(duration) ==
    IF duration.kind # "string" \/ TrimIsEmpty(duration.chars) THEN Returned(0)
    ELSE LET match == Match(duration.chars, TRUE)
         IN  IF ~match.found THEN Returned(0)
             ELSE Returned(parseGroup(match.g1).n * 3600
                           + parseGroup(match.g2).n * 3600 + parseGroup(match.g3).n)

parseDuration(duration) ==
    IF duration.kind # "string" \/ TrimIsEmpty(duration.chars) THEN Returned(0)
    ELSE LET match == Match(duration.chars, TRUE)
         IN  IF ~match.found THEN Returned(0)
             ELSE Returned(parseGroup(match.g1).n * 3600
                           + parseGroup(match.g2).n * 60 + parseGroup(match.g3).n)

\* services/youtubeService: parseDuration; duration.match raises a
\* TypeError when duration is undefined or null.
serviceParseDuration(duration) ==
    IF duration.kind # "string" THEN Thrown("TypeError")
    ELSE LET match == Match(duration.chars, FALSE)
         IN  IF ~match.found THEN Returned(0)
             ELSE Returned(parseGroupOrZero(match.g1).n * 3600
                           + parseGroupOrZero(match.g2).n * 60
                           + parseGroupOrZero(match.g3).n)

\* ------------------------------------------------------------------------
\* Arguments of parseDuration
\* ------------------------------------------------------------------------
DurChars == {"P", "T", "M", "S", "5", "x", " "}

DurStrings == UNION {[1..n -> DurChars] : n \in 0..MaxDurLen}

\* A component of a duration: -1 when it is left out.
Parts == (-1..MaxPart) \cup {5, 30, 45}

Part(k, unit) == IF k < 0 THEN <<>> ELSE ToDigits(k) \o <<unit>>

\* The compact notation of hours h, minutes m and seconds s.
Encode(h, m, s) == <<"P", "T">> \o Part(h, "H") \o Part(m, "M") \o Part(s, "S")

NoParts == [given |-> FALSE, h |-> -1, m |-> -1, s |-> -1]

NoDuration == [kind |-> "undefined", chars |-> <<>>, parts |-> NoParts]

NoOutcome == [thrown |-> "none", value |-> 0, by |-> "none"]

DurationIdle ==
    /\ durPc = "idle"
    /\ durIn = NoDuration
    /\ durOut = NoOutcome

\* contentDetails.duration is any short string.
ReceiveDurationString ==
    /\ durPc = "idle"
    /\ \E s \in DurStrings :
           durIn' = [kind |-> "string", chars |-> s, parts |-> NoParts]
    /\ durPc' = "received"
    /\ UNCHANGED <<durOut, scVars, shVars, appVars, flVars, restVars>>

\* contentDetails.duration is missing.
ReceiveDurationMissing ==
    /\ durPc = "idle"
    /\ \E k \in {"undefined", "null"} :
           durIn' = [kind |-> k, chars |-> <<>>, parts |-> NoParts]
    /\ durPc' = "received"
    /\ UNCHANGED <<durOut, scVars, shVars, appVars, flVars, restVars>>

\* contentDetails.duration is the compact notation of some components.
ReceiveDurationEncoded ==
    /\ durPc = "idle"
    /\ \E h \in Parts, m \in Parts, s \in Parts :
           durIn' = [kind |-> "string", chars |-> Encode(h, m, s),
                     parts |-> [given |-> TRUE, h |-> h, m |-> m, s |-> s]]
    /\ durPc' = "received"
    /\ UNCHANGED <<durOut, scVars, shVars, appVars, flVars, restVars>>

\* utils: parseDuration(duration)
ParseDuration ==
    /\ durPc = "received"
    /\ durOut' = [thrown |-> parseDuration(durIn).thrown,
                  value |-> parseDuration(durIn).value, by |-> "utils"]
    /\ durPc' = "parsed"
    /\ UNCHANGED <<durIn, scVars, shVars, appVars, flVars, restVars>>

\* services/youtubeService: parseDuration(duration)
ServiceParseDuration ==
    /\ durPc = "received"
    /\ durOut' = [thrown |-> serviceParseDuration(durIn).thrown,
                  value |-> serviceParseDuration(durIn).value, by |-> "service"]
    /\ durPc' = "parsed"
    /\ UNCHANGED <<durIn, scVars, shVars, appVars, flVars, restVars>>

DiscardDuration ==
    /\ durPc = "parsed"
    /\ durPc' = "idle"
    /\ durIn' = NoDuration
    /\ durOut' = NoOutcome
    /\ UNCHANGED <<scVars, shVars, appVars, flVars, restVars>>

\* ------------------------------------------------------------------------
\* constants: VIDEO_DURATION_LIMITS
\* ------------------------------------------------------------------------
SHORTS_MAX_SECONDS == 60

SHORTS_EXTENDED_MAX_SECONDS == 180

\* ------------------------------------------------------------------------
\* VideoData as getVideoDetails returns it for valid statistics
\* ------------------------------------------------------------------------
VideoData(id, viewCount, likeCount, commentCount, duration) ==
    [id |-> id, viewCount |-> viewCount, likeCount |-> likeCount,
     commentCount |-> commentCount, duration |-> duration,
     popularityScore |->
         toFixed2(calculatePopularityScore(Num(viewCount), Num(likeCount),
                                           Num(commentCount))).c]

\* Array.prototype.filter
RECURSIVE SelectSeqBy(_, _)
SelectSeqBy(s, keep) ==
    IF s = <<>> THEN <<>>
    ELSE IF keep[Head(s)] THEN <<Head(s)>> \o SelectSeqBy(Tail(s), keep)
    ELSE SelectSeqBy(Tail(s), keep)

Range(s) == {s[i] : i \in 1..Len(s)}

\* Array.prototype.reverse
Reverse(s) == [i \in 1..Len(s) |-> s[Len(s) + 1 - i]]

\* s.slice(0, k)
SliceFirst(s, k) == SubSeq(s, 1, IF Len(s) < k THEN Len(s) ELSE k)

\* s.slice(-k)
SliceLast(s, k) == SubSeq(s, IF Len(s) < k THEN 1 ELSE Len(s) - k + 1, Len(s))

\* ------------------------------------------------------------------------
\* youtubeService: analyzeShortsPerformance
\* ------------------------------------------------------------------------
\* v.duration > 0 && v.duration <= VIDEO_DURATION_LIMITS.SHORTS_MAX_SECONDS
isShort(v) == v.duration > 0 /\ v.duration <= SHORTS_MAX_SECONDS

\* Ratios are rationals [num, den] with den > 0.
Ratio(num, den) == [num |-> num, den |-> den]

RatioLess(a, b) == a.num * b.den < b.num * a.den

engagementRateOf(video) ==
    IF video.viewCount > 0
    THEN Ratio(video.likeCount + video.commentCount, video.viewCount)
    ELSE Ratio(0, 1)

\* Math.min(video.viewCount / subscriberCount, 1), undefined without
\* subscribers
retentionScoreOf(video, subscriberCount) ==
    IF subscriberCount > 0
    THEN [defined |-> TRUE,
          value |-> IF video.viewCount < subscriberCount
                    THEN Ratio(video.viewCount, subscriberCount)
                    ELSE Ratio(1, 1)]
    ELSE [defined |-> FALSE, value |-> Ratio(0, 1)]

hookEffectivenessOf(video) ==
    IF video.viewCount > 0
    THEN Ratio((video.likeCount + video.commentCount * 2) * 100, video.viewCount)
    ELSE Ratio(0, 1)

withEngagement(video, subscriberCount) ==
    [id |-> video.id, viewCount |-> video.viewCount,
     likeCount |-> video.likeCount, commentCount |-> video.commentCount,
     duration |-> video.duration, popularityScore |-> video.popularityScore,
     engagementRate |-> engagementRateOf(video),
     retentionScore |-> retentionScoreOf(video, subscriberCount),
     hookEffectiveness |-> hookEffectivenessOf(video),
     performance |-> "AVERAGE"]

\* The comparator (a, b) => b.engagementRate - a.engagementRate is negative
engagementBeforeAscending(a, b) == RatioLess(a.engagementRate, b.engagementRate)

engagementBefore(a, b) == RatioLess(b.engagementRate, a.engagementRate)

insertByEngagementBeforeTies(sorted, x) ==
    LET later == {i \in 1..Len(sorted) : ~engagementBefore(sorted[i], x)}
        pos == IF later = {} THEN Len(sorted) + 1
               ELSE CHOOSE i \in later : \A j \in later : i <= j
    IN  SubSeq(sorted, 1, pos - 1) \o <<x>> \o SubSeq(sorted, pos, Len(sorted))

\* One step of the stable sort: x goes in front of the first element the
\* comparator puts it before, and after every other one.
insertByEngagement(sorted, x) ==
    LET later == {i \in 1..Len(sorted) : engagementBefore(x, sorted[i])}
        pos == IF later = {} THEN Len(sorted) + 1
               ELSE CHOOSE i \in later : \A j \in later : i <= j
    IN  SubSeq(sorted, 1, pos - 1) \o <<x>> \o SubSeq(sorted, pos, Len(sorted))

sortByEngagementInputOrder(s) == s

\* [...shortsWithEngagement].sort((a, b) => b.engagementRate - a.engagementRate)
sortByEngagement(s) ==
    LET f[k \in 0..Len(s)] == IF k = 0 THEN <<>> ELSE insertByEngagement(f[k - 1], s[k])
    IN  f[Len(s)]

findIndexByIdOneBased(sorted, id) ==
    LET at == {i \in 1..Len(sorted) : sorted[i].id = id}
    IN  IF at = {} THEN -1 ELSE CHOOSE i \in at : \A j \in at : i <= j

\* sortedByEngagement.findIndex(s => s.id === short.id), 0-based
findIndexById(sorted, id) ==
    LET at == {i \in 1..Len(sorted) : sorted[i].id = id}
    IN  IF at = {} THEN -1 ELSE (CHOOSE i \in at : \A j \in at : i <= j) - 1

\* The grade of percentile = (rank / length) * 100
performanceOfInclusive(rank, length) ==
    IF rank * 100 <= 10 * length THEN "VIRAL"
    ELSE IF rank * 100 <= 30 * length THEN "EXCELLENT"
    ELSE IF rank * 100 <= 60 * length THEN "GOOD"
    ELSE IF rank * 100 <= 80 * length THEN "AVERAGE"
    ELSE "POOR"

performanceOf(rank, length) ==
    IF rank * 100 < 10 * length THEN "VIRAL"
    ELSE IF rank * 100 < 30 * length THEN "EXCELLENT"
    ELSE IF rank * 100 < 60 * length THEN "GOOD"
    ELSE IF rank * 100 < 80 * length THEN "AVERAGE"
    ELSE "POOR"

analyzeShortsPerformance(videos, subscriberCount) ==
    LET shorts == SelectSeqBy(videos, [v \in Range(videos) |-> isShort(v)])
        shortsWithEngagement ==
            [i \in 1..Len(shorts) |-> withEngagement(shorts[i], subscriberCount)]
        sortedByEngagement == sortByEngagement(shortsWithEngagement)
    IN  IF Len(shorts) = 0 THEN <<>>
        ELSE [i \in 1..Len(shorts) |->
                 [shortsWithEngagement[i] EXCEPT !.performance =
                      performanceOf(findIndexById(sortedByEngagement,
                                                  shortsWithEngagement[i].id),
                                    Len(sortedByEngagement))]]

\* ------------------------------------------------------------------------
\* youtubeService: generateShortsSummary
\* ------------------------------------------------------------------------
RECURSIVE Gcd(_, _)
Gcd(a, b) == IF b = 0 THEN a ELSE Gcd(b, a % b)

\* a + b of two ratios, in lowest terms
RatioAdd(a, b) ==
    LET num == a.num * (b.den \div Gcd(a.den, b.den)) + b.num * (a.den \div Gcd(a.den, b.den))
        den == a.den * (b.den \div Gcd(a.den, b.den))
        g == Gcd(num, den)
    IN  Ratio(num \div g, den \div g)

\* a / n of a ratio and a positive integer, in lowest terms
RatioOver(a, n) ==
    LET g == Gcd(a.num, a.den * n)
    IN  Ratio(a.num \div g, (a.den * n) \div g)

\* shorts.reduce((sum, s) => sum + s.viewCount, 0)
totalViewsOf(shorts) ==
    LET f[k \in 0..Len(shorts)] == IF k = 0 THEN 0 ELSE f[k - 1] + shorts[k].viewCount
    IN  f[Len(shorts)]

\* shorts.reduce((sum, s) => sum + s.engagementRate, 0)
totalEngagementOf(shorts) ==
    LET f[k \in 0..Len(shorts)] ==
            IF k = 0 THEN Ratio(0, 1) ELSE RatioAdd(f[k - 1], shorts[k].engagementRate)
    IN  f[Len(shorts)]

MathFloor(num, den) == num \div den

\* Math.round(num / den) of a non-negative quotient: halves go up
MathRound(num, den) == (2 * num + den) \div (2 * den)

\* (num / den).toFixed(digits) in units of 10^-digits, scale = 10^digits
toFixedScaled(num, den, scale) == (2 * num * scale + den) \div (2 * den)

\* shorts.filter(s => s.performance === tier).length
countOf(shorts, tier) ==
    Cardinality({i \in 1..Len(shorts) : shorts[i].performance = tier})

insertByViewsBeforeTies(sorted, x) ==
    LET later == {i \in 1..Len(sorted) : x.viewCount >= sorted[i].viewCount}
        pos == IF later = {} THEN Len(sorted) + 1
               ELSE CHOOSE i \in later : \A j \in later : i <= j
    IN  SubSeq(sorted, 1, pos - 1) \o <<x>> \o SubSeq(sorted, pos, Len(sorted))

\* One step of the stable sort by (a, b) => b.viewCount - a.viewCount
insertByViews(sorted, x) ==
    LET later == {i \in 1..Len(sorted) : x.viewCount > sorted[i].viewCount}
        pos == IF later = {} THEN Len(sorted) + 1
               ELSE CHOOSE i \in later : \A j \in later : i <= j
    IN  SubSeq(sorted, 1, pos - 1) \o <<x>> \o SubSeq(sorted, pos, Len(sorted))

\* [...shorts].sort((a, b) => b.viewCount - a.viewCount)
sortByViews(s) ==
    LET f[k \in 0..Len(s)] == IF k = 0 THEN <<>> ELSE insertByViews(f[k - 1], s[k])
    IN  f[Len(s)]

Null == [null |-> TRUE, video |-> <<>>]

Performer(video) == [null |-> FALSE, video |-> video]

\* A recommendation string: the rule that pushed it and the number it embeds
Message(rule, arg) == [rule |-> rule, arg |-> arg]

\* if (viralRate < 5) ... else if (viralRate > 15) ...
viralAdvice(viralCount, length) ==
    IF viralCount * 100 < 5 * length THEN <<Message("lowViral", 0)>>
    ELSE IF viralCount * 100 > 15 * length
         THEN <<Message("highViral", toFixedScaled(viralCount * 100, length, 10))>>
         ELSE <<>>

\* The mean is computed in doubles: a sum of rounded quotients, divided by
\* the length.  The model keeps the exact mean; where the exact mean is
\* one of the two thresholds, the rounding error of the double decides the
\* test, and its sign (drift) is -1, 0 or 1.
Drifts(avgEngagement) ==
    IF \/ avgEngagement.num * 100 = avgEngagement.den
       \/ avgEngagement.num * 100 = 5 * avgEngagement.den
    THEN {-1, 0, 1}
    ELSE {0}

\* if (avgEngagement < 0.01) ... else if (avgEngagement > 0.05) ...
engagementAdvice(avgEngagement, drift) ==
    IF \/ avgEngagement.num * 100 < avgEngagement.den
       \/ (avgEngagement.num * 100 = avgEngagement.den /\ drift < 0)
    THEN <<Message("lowEngagement", 0)>>
    ELSE IF \/ avgEngagement.num * 100 > 5 * avgEngagement.den
            \/ (avgEngagement.num * 100 = 5 * avgEngagement.den /\ drift > 0)
         THEN <<Message("highEngagement",
                        toFixedScaled(avgEngagement.num * 100, avgEngagement.den, 100))>>
         ELSE <<>>

\* if (poorRate > 30) ...
poorAdvice(poorCount, length) ==
    IF poorCount * 100 > 30 * length
    THEN <<Message("manyPoor", toFixedScaled(poorCount * 100, length, 10))>>
    ELSE <<>>

\* if (shorts.length < 10) ...
frequencyAdvice(length) ==
    IF length < 10 THEN <<Message("fewShorts", 0)>> ELSE <<>>

\* topShorts: the first five VIRAL or EXCELLENT shorts; their mean duration
topDurationAdvice(shorts) ==
    LET topShorts ==
            SliceFirst(SelectSeqBy(shorts, [x \in Range(shorts) |->
                                       x.performance \in {"VIRAL", "EXCELLENT"}]), 5)
        total[k \in 0..Len(topShorts)] ==
            IF k = 0 THEN 0 ELSE total[k - 1] + topShorts[k].duration
    IN  IF Len(topShorts) > 0
        THEN <<Message("topDuration",
                       toFixedScaled(total[Len(topShorts)], Len(topShorts), 1))>>
        ELSE <<>>

\* if (recommendations.length === 0) recommendations.push(default)
orDefault(recommendations) ==
    IF Len(recommendations) = 0 THEN <<Message("default", 0)>> ELSE recommendations

recommendationsOfEarlyExit(shorts, avgEngagement, drift) ==
    LET first == viralAdvice(countOf(shorts, "VIRAL"), Len(shorts))
    IN  IF first # <<>> THEN first
        ELSE orDefault(engagementAdvice(avgEngagement, drift)
                           \o poorAdvice(countOf(shorts, "POOR"), Len(shorts))
                           \o frequencyAdvice(Len(shorts))
                           \o topDurationAdvice(shorts))

\* The recommendations array of a non-empty batch
recommendationsOf(shorts, avgEngagement, drift) ==
    orDefault(viralAdvice(countOf(shorts, "VIRAL"), Len(shorts))
                  \o engagementAdvice(avgEngagement, drift)
                  \o poorAdvice(countOf(shorts, "POOR"), Len(shorts))
                  \o frequencyAdvice(Len(shorts))
                  \o topDurationAdvice(shorts))

emptySummaryWithoutAdvice ==
    [totalShorts |-> 0, avgViews |-> 0, avgEngagement |-> Ratio(0, 1),
     viralCount |-> 0, poorCount |-> 0, bestPerformer |-> Null,
     worstPerformer |-> Null, recommendations |-> <<>>]

\* The summary returned when shorts.length === 0
emptySummary ==
    [totalShorts |-> 0, avgViews |-> 0, avgEngagement |-> Ratio(0, 1),
     viralCount |-> 0, poorCount |-> 0, bestPerformer |-> Null,
     worstPerformer |-> Null, recommendations |-> <<Message("noShorts", 0)>>]

\* RatioOver(totalEngagement, shorts.length), 0 for no shorts
avgEngagementOf(shorts) ==
    IF Len(shorts) = 0 THEN Ratio(0, 1)
    ELSE RatioOver(totalEngagementOf(shorts), Len(shorts))

generateShortsSummary(shorts, drift) ==
    IF Len(shorts) = 0 THEN emptySummary
    ELSE LET totalViews == totalViewsOf(shorts)
             avgEngagement == RatioOver(totalEngagementOf(shorts), Len(shorts))
             sortedByViews == sortByViews(shorts)
         IN  [totalShorts |-> Len(shorts),
              avgViews |-> MathRound(totalViews, Len(shorts)),
              avgEngagement |-> avgEngagement,
              viralCount |-> countOf(shorts, "VIRAL"),
              poorCount |-> countOf(shorts, "POOR"),
              bestPerformer |-> Performer(sortedByViews[1]),
              worstPerformer |-> Performer(sortedByViews[Len(sortedByViews)]),
              recommendations |-> recommendationsOf(shorts, avgEngagement, drift)]

\* ------------------------------------------------------------------------
\* Batches handed to the Shorts analysis.  Ids are the positions in the
\* response, so they are unique within a batch.
\* ------------------------------------------------------------------------
Profiles ==
    {[v |-> 10, l |-> 1, c |-> 0, d |-> 30],
     [v |-> 10, l |-> 1, c |-> 1, d |-> 60],
     [v |-> 5, l |-> 1, c |-> 0, d |-> 30],
     [v |-> 0, l |-> 0, c |-> 0, d |-> 30],
     [v |-> 10, l |-> 5, c |-> 0, d |-> 61],
     [v |-> 10, l |-> 5, c |-> 0, d |-> 0]}

ProfileBatches == UNION {[1..n -> Profiles] : n \in 0..MaxBatch}

BatchOf(ps) == [i \in 1..Len(ps) |-> VideoData(i, ps[i].v, ps[i].l, ps[i].c, ps[i].d)]

Coprime(a, n) == \A d \in 2..n : ~(a % d = 0 /\ n % d = 0)

\* n shorts of 100 views whose like counts follow the permutation
\* i |-> (a * i + b) mod n of 0..n-1, each value shared by t neighbours:
\* strictly distinct engagement rates when t = 1.
RankedBatch(n, a, b, t) ==
    [i \in 1..n |-> VideoData(i, 100, (((a * i + b) % n) \div t) + 1, 0, 30)]

\* Three shorts of 1000 views: A (100 likes, 50 comments), B (10, 5) and
\* C (500, 200), in any order of the response.
ExampleProfiles ==
    <<[v |-> 1000, l |-> 100, c |-> 50, d |-> 30],
      [v |-> 1000, l |-> 10, c |-> 5, d |-> 60],
      [v |-> 1000, l |-> 500, c |-> 200, d |-> 30]>>

Orders(n) == {p \in [1..n -> 1..n] : \A i \in 1..n : \A j \in 1..n : p[i] = p[j] => i = j}

ExampleBatch(p) == BatchOf([i \in 1..3 |-> ExampleProfiles[p[i]]])

Subscribers == {0, 20}

NoBatch == [videos |-> <<>>, subscriberCount |-> 0]

\* ShortsData as a caller of generateShortsSummary may hold them: any tier
\* on any item.
ShortsData(id, viewCount, likeCount, duration, performance) ==
    [withEngagement(VideoData(id, viewCount, likeCount, 0, duration), 0)
         EXCEPT !.performance = performance]

SummaryProfiles ==
    {[v |-> 100, l |-> 1, d |-> 30, t |-> "VIRAL"],
     [v |-> 100, l |-> 5, d |-> 45, t |-> "POOR"],
     [v |-> 101, l |-> 0, d |-> 60, t |-> "GOOD"],
     [v |-> 300, l |-> 30, d |-> 20, t |-> "EXCELLENT"],
     [v |-> 100, l |-> 10, d |-> 30, t |-> "AVERAGE"],
     [v |-> 300, l |-> 3, d |-> 15, t |-> "POOR"]}

SummaryBatches ==
    {[i \in 1..Len(ps) |-> ShortsData(i, ps[i].v, ps[i].l, ps[i].d, ps[i].t)] :
         ps \in UNION {[1..n -> SummaryProfiles] : n \in 1..MaxSummaryBatch}}

\* n shorts of 100 views and the same like count: the first `viral` are
\* VIRAL, the last `poor` are POOR, the others GOOD; durations differ.
TaggedBatch(n, viral, poor, likes) ==
    [i \in 1..n |->
        ShortsData(i, 100, likes, 20 + i,
                   IF i <= viral THEN "VIRAL"
                   ELSE IF i > n - poor THEN "POOR" ELSE "GOOD")]

TaggedSizes == (9..(9 + MaxTagged)) \cup {20}

TaggedLikes == {0, 1, 3, 5, 6}

NoSummary ==
    [totalShorts |-> 0, avgViews |-> 0, avgEngagement |-> Ratio(0, 1),
     viralCount |-> 0, poorCount |-> 0, bestPerformer |-> Null,
     worstPerformer |-> Null, recommendations |-> <<>>]

ShortsIdle ==
    /\ shPc = "idle"
    /\ shVideos = NoBatch
    /\ shShorts = <<>>
    /\ shSummary = NoSummary

\* getVideoDetails resolves with a batch of arbitrary videos.
FetchVideos ==
    /\ shPc = "idle"
    /\ \E ps \in ProfileBatches, sub \in Subscribers :
           shVideos' = [videos |-> BatchOf(ps), subscriberCount |-> sub]
    /\ shPc' = "fetched"
    /\ UNCHANGED <<shShorts, shSummary, scVars, durVars, appVars, flVars, restVars>>

\* getVideoDetails resolves with a larger batch of shorts.
FetchRankedVideos ==
    /\ shPc = "idle"
    /\ \E n \in 1..MaxRanked, sub \in Subscribers, t \in 1..MaxTie :
           \E a \in {k \in 1..n : Coprime(k, n)}, b \in 0..(n - 1) :
               shVideos' = [videos |-> RankedBatch(n, a, b, t),
                            subscriberCount |-> sub]
    /\ shPc' = "fetched"
    /\ UNCHANGED <<shShorts, shSummary, scVars, durVars, appVars, flVars, restVars>>

\* getVideoDetails resolves with the three shorts A, B and C.
FetchExampleVideos ==
    /\ shPc = "idle"
    /\ \E p \in Orders(3), sub \in Subscribers :
           shVideos' = [videos |-> ExampleBatch(p), subscriberCount |-> sub]
    /\ shPc' = "fetched"
    /\ UNCHANGED <<shShorts, shSummary, scVars, durVars, appVars, flVars, restVars>>

\* youtubeService.analyzeShortsPerformance(videoDetails, subscriberCount)
AnalyzeShortsPerformance ==
    /\ shPc = "fetched"
    /\ shShorts' = analyzeShortsPerformance(shVideos.videos, shVideos.subscriberCount)
    /\ shPc' = "analyzed"
    /\ UNCHANGED <<shVideos, shSummary, scVars, durVars, appVars, flVars, restVars>>

\* A caller holds a small batch of ShortsData.
ReceiveShortsData ==
    /\ shPc = "idle"
    /\ \E shorts \in SummaryBatches : shShorts' = shorts
    /\ shPc' = "given"
    /\ UNCHANGED <<shVideos, shSummary, scVars, durVars, appVars, flVars, restVars>>

\* A caller holds a larger batch of ShortsData.
ReceiveTaggedShortsData ==
    /\ shPc = "idle"
    /\ \E n \in TaggedSizes, viral \in 0..3, poor \in {0, 2, 3, 4, 6},
          likes \in TaggedLikes :
           shShorts' = TaggedBatch(n, viral, poor, likes)
    /\ shPc' = "given"
    /\ UNCHANGED <<shVideos, shSummary, scVars, durVars, appVars, flVars, restVars>>

\* youtubeService.generateShortsSummary(shortsData)
GenerateShortsSummary ==
    /\ shPc \in {"analyzed", "given"}
    /\ \E drift \in Drifts(avgEngagementOf(shShorts)) :
           shSummary' = generateShortsSummary(shShorts, drift)
    /\ shPc' = "summarized"
    /\ UNCHANGED <<shVideos, shShorts, scVars, durVars, appVars, flVars, restVars>>

\* The next search replaces the analysis.
DiscardShorts ==
    /\ shPc \in {"analyzed", "summarized"}
    /\ shPc' = "idle"
    /\ shVideos' = NoBatch
    /\ shShorts' = <<>>
    /\ shSummary' = NoSummary
    /\ UNCHANGED <<scVars, durVars, appVars, flVars, restVars>>

\* ------------------------------------------------------------------------
\* utils: filterByVideoType
\* ------------------------------------------------------------------------
filterByVideoTypeStrict(videos, type, shortsMaxDuration) ==
    CASE type = "SHORTS" ->
             SelectSeqBy(videos, [v \in Range(videos) |->
                                     v.duration > 0 /\ v.duration < shortsMaxDuration])
      [] type = "LONG" ->
             SelectSeqBy(videos, [v \in Range(videos) |-> v.duration >= shortsMaxDuration])
      [] OTHER -> videos

filterByVideoType(videos, type, shortsMaxDuration) ==
    CASE type = "SHORTS" ->
             SelectSeqBy(videos, [v \in Range(videos) |->
                                     v.duration > 0 /\ v.duration <= shortsMaxDuration])
      [] type = "LONG" ->
             SelectSeqBy(videos, [v \in Range(videos) |-> v.duration > shortsMaxDuration])
      [] OTHER -> videos

\* The third parameter, when the caller gives none
filterByVideoTypeDefault(videos, type) ==
    filterByVideoType(videos, type, SHORTS_MAX_SECONDS)

\* Calls of filterByVideoType: videos of any duration, each type, with the
\* Shorts limit, the extended limit or no limit given.
FilterDurations == {0, 30, 60, 61, 180, 200}

FilterThresholds == {SHORTS_MAX_SECONDS, SHORTS_EXTENDED_MAX_SECONDS}

FilterBatches ==
    {[i \in 1..Len(ds) |-> VideoData(i, 10, 1, 0, ds[i])] :
         ds \in UNION {[1..n -> FilterDurations] : n \in 0..MaxFilterBatch}}

NoFilterCall == [videos |-> <<>>, type |-> "ALL", given |-> FALSE, shortsMaxDuration |-> 0]

FilterIdle ==
    /\ flPc = "idle"
    /\ flIn = NoFilterCall
    /\ flOut = <<>>

\* filterByVideoType(videos, type, shortsMaxDuration) is called.
CallFilterWithLimit ==
    /\ flPc = "idle"
    /\ \E videos \in FilterBatches, type \in {"ALL", "SHORTS", "LONG"},
          limit \in FilterThresholds :
           flIn' = [videos |-> videos, type |-> type, given |-> TRUE,
                    shortsMaxDuration |-> limit]
    /\ flPc' = "called"
    /\ UNCHANGED <<flOut, scVars, durVars, shVars, appVars, restVars>>

\* filterByVideoType(videos, type) is called.
CallFilterWithoutLimit ==
    /\ flPc = "idle"
    /\ \E videos \in FilterBatches, type \in {"ALL", "SHORTS", "LONG"} :
           flIn' = [videos |-> videos, type |-> type, given |-> FALSE,
                    shortsMaxDuration |-> 0]
    /\ flPc' = "called"
    /\ UNCHANGED <<flOut, scVars, durVars, shVars, appVars, restVars>>

\* The call returns.
FilterByVideoType ==
    /\ flPc = "called"
    /\ flOut' = IF flIn.given
                THEN filterByVideoType(flIn.videos, flIn.type, flIn.shortsMaxDuration)
                ELSE filterByVideoTypeDefault(flIn.videos, flIn.type)
    /\ flPc' = "filtered"
    /\ UNCHANGED <<flIn, scVars, durVars, shVars, appVars, restVars>>

\* The caller takes the list.
DiscardFilter ==
    /\ flPc = "filtered"
    /\ flPc' = "idle"
    /\ flIn' = NoFilterCall
    /\ flOut' = <<>>
    /\ UNCHANGED <<scVars, durVars, shVars, appVars, restVars>>

\* ------------------------------------------------------------------------
\* App: handleSearch
\* ------------------------------------------------------------------------
\* One step of the stable sort by (a, b) => a.popularityScore - b.popularityScore
insertByPopularity(sorted, x) ==
    LET later == {i \in 1..Len(sorted) : x.popularityScore < sorted[i].popularityScore}
        pos == IF later = {} THEN Len(sorted) + 1
               ELSE CHOOSE i \in later : \A j \in later : i <= j
    IN  SubSeq(sorted, 1, pos - 1) \o <<x>> \o SubSeq(sorted, pos, Len(sorted))

sortByPopularity(s) ==
    LET f[k \in 0..Len(s)] == IF k = 0 THEN <<>> ELSE insertByPopularity(f[k - 1], s[k])
    IN  f[Len(s)]

channelDisplayWithoutReverse(videoDetails, channelView) ==
    IF Len(videoDetails) > 0
    THEN LET sortedVideos == sortByPopularity(videoDetails)
         IN  IF channelView = "TOP" THEN SliceLast(sortedVideos, 10)
             ELSE SliceFirst(sortedVideos, 10)
    ELSE <<>>

\* displayVideos of a CHANNEL search
channelDisplay(videoDetails, channelView) ==
    IF Len(videoDetails) > 0
    THEN LET sortedVideos == sortByPopularity(videoDetails)
         IN  IF channelView = "TOP" THEN Reverse(SliceLast(sortedVideos, 10))
             ELSE SliceFirst(sortedVideos, 10)
    ELSE <<>>

\* displayVideos of the searches that set analysisResult
displayVideos(run, details) ==
    CASE run.analysisType = "CHANNEL" ->
             channelDisplay(filterByVideoType(details, run.videoTypeFilter,
                                              SHORTS_EXTENDED_MAX_SECONDS),
                            run.channelView)
      [] run.analysisType = "KEYWORD" ->
             SliceFirst(filterByVideoType(details, run.videoTypeFilter,
                                          SHORTS_EXTENDED_MAX_SECONDS), 10)
      [] run.analysisType = "RISING_STAR" -> SliceFirst(details, 10)
      [] OTHER -> SliceFirst(details, 50)

\* ------------------------------------------------------------------------
\* The arrays of a handleSearch run.  An array is an object: sort and
\* reverse change the array they are called on, while filter, map, slice
\* and [...a] make a new one.  A heap maps the arrays of the run to their
\* contents; "fetched" is the array getVideoDetails resolved with.
\* ------------------------------------------------------------------------
NewArray(heap, array, content) == heap @@ (array :> content)

SetArray(heap, array, content) == [heap EXCEPT ![array] = content]

\* The array the variable videoDetails holds after
\* videoDetails = filterByVideoType(videoDetails, videoTypeFilter, ...):
\* filter makes a new array, ALL returns the argument itself.
videoDetailsOf(type) == IF type \in {"SHORTS", "LONG"} THEN "filtered" ELSE "fetched"

filteredArrays(details, type) ==
    IF type \in {"SHORTS", "LONG"}
    THEN NewArray("fetched" :> details, "filtered",
                  filterByVideoType(details, type, SHORTS_EXTENDED_MAX_SECONDS))
    ELSE "fetched" :> details

channelArraysSortInPlace(details, type, channelView) ==
    LET h1 == filteredArrays(details, type)
        videoDetails == videoDetailsOf(type)
        h3 == SetArray(h1, videoDetails, sortByPopularity(h1[videoDetails]))
    IN  IF Len(h1[videoDetails]) > 0
        THEN IF channelView = "TOP"
             THEN NewArray(h3, "displayVideos", Reverse(SliceLast(h3[videoDetails], 10)))
             ELSE NewArray(h3, "displayVideos", SliceFirst(h3[videoDetails], 10))
        ELSE NewArray(h1, "displayVideos", <<>>)

\* CHANNEL: [...videoDetails].sort(...), then slice(-10).reverse() or
\* slice(0, 10)
channelArrays(details, type, channelView) ==
    LET h1 == filteredArrays(details, type)
        videoDetails == videoDetailsOf(type)
        h2 == NewArray(h1, "sortedVideos", h1[videoDetails])
        h3 == SetArray(h2, "sortedVideos", sortByPopularity(h2["sortedVideos"]))
        sliced == NewArray(h3, "displayVideos", SliceLast(h3["sortedVideos"], 10))
    IN  IF Len(h1[videoDetails]) > 0
        THEN IF channelView = "TOP"
             THEN SetArray(sliced, "displayVideos", Reverse(sliced["displayVideos"]))
             ELSE NewArray(h3, "displayVideos", SliceFirst(h3["sortedVideos"], 10))
        ELSE NewArray(h1, "displayVideos", <<>>)

\* The arrays of a run that sets analysisResult
searchArrays(run, details) ==
    CASE run.analysisType = "CHANNEL" ->
             channelArrays(details, run.videoTypeFilter, run.channelView)
      [] run.analysisType = "KEYWORD" ->
             LET h1 == filteredArrays(details, run.videoTypeFilter)
             IN  NewArray(h1, "displayVideos",
                          SliceFirst(h1[videoDetailsOf(run.videoTypeFilter)], 10))
      [] run.analysisType = "RISING_STAR" ->
             NewArray("fetched" :> details, "displayVideos", SliceFirst(details, 10))
      [] OTHER ->
             NewArray("fetched" :> details, "displayVideos", SliceFirst(details, 50))

\* The arrays of a SHORTS_MANAGEMENT run: those of analyzeShortsPerformance
\* and, when there are shorts, the sorted copy of generateShortsSummary
shortsArrays(details, subscriberCount) ==
    LET h1 == NewArray("fetched" :> details, "shorts",
                       SelectSeqBy(details, [v \in Range(details) |-> isShort(v)]))
        h2 == NewArray(h1, "shortsWithEngagement",
                       [i \in 1..Len(h1["shorts"]) |->
                           withEngagement(h1["shorts"][i], subscriberCount)])
        h3 == NewArray(h2, "sortedByEngagement", h2["shortsWithEngagement"])
        h4 == SetArray(h3, "sortedByEngagement", sortByEngagement(h3["sortedByEngagement"]))
        h5 == NewArray(h4, "shortsData", analyzeShortsPerformance(details, subscriberCount))
        h6 == NewArray(h5, "sortedByViews", h5["shortsData"])
    IN  IF Len(h1["shorts"]) = 0 THEN NewArray(h1, "shortsData", <<>>)
        ELSE SetArray(h6, "sortedByViews", sortByViews(h6["sortedByViews"]))

AnalysisTypes == {"CHANNEL", "KEYWORD", "RISING_STAR", "BLUE_OCEAN", "SHORTS_MANAGEMENT"}

ChannelViews == {"TOP", "BOTTOM"}

VideoTypeFilters == {"ALL", "SHORTS", "LONG"}

AppProfiles ==
    {[v |-> 7, l |-> 2, c |-> 0, d |-> 30],
     [v |-> 10, l |-> 1, c |-> 1, d |-> 180],
     [v |-> 5, l |-> 1, c |-> 0, d |-> 181],
     [v |-> 0, l |-> 3, c |-> 1, d |-> 0],
     [v |-> 10, l |-> 5, c |-> 0, d |-> 60],
     [v |-> 5, l |-> 1, c |-> 0, d |-> 45]}

\* Five videos of popularityScore 10, 50, 5, 80 and 20, in that order
SelectionExample ==
    LET k == <<10, 50, 5, 80, 20>>
    IN  [i \in 1..5 |-> VideoData(i, 1000, k[i], k[i], 30 * i)]

AppBatches ==
    {BatchOf(ps) : ps \in UNION {[1..n -> AppProfiles] : n \in 0..MaxAppBatch}}
        \cup {RankedBatch(n, a, b, 1) :
                  n \in {MaxRanked + 2}, a \in {1, 5}, b \in 0..MaxRanked}
        \cup {SelectionExample}

\* appRun keeps, after the run has settled, the selections it was started
\* with and the videoDetails it received.
NoRun == [pc |-> "idle", analysisType |-> "CHANNEL", channelView |-> "TOP",
          videoTypeFilter |-> "ALL", videoDetails |-> <<>>, subscriberCount |-> 0]

NoResult == [set |-> FALSE, videos |-> <<>>]

NoShortsAnalysis == [set |-> FALSE, videos |-> <<>>, summary |-> NoSummary]

AppIdle ==
    /\ appRun = NoRun
    /\ isLoading = FALSE
    /\ error = "none"
    /\ analysisResult = NoResult
    /\ aiStrategy = "none"
    /\ shortsAnalysis = NoShortsAnalysis

\* handleSearch without an API key or without a query: setError and return.
SearchRejected ==
    /\ appRun.pc = "idle"
    /\ \E e \in {"noApiKey", "noQuery"} : error' = e
    /\ UNCHANGED <<appRun, isLoading, analysisResult, aiStrategy, shortsAnalysis,
                   scVars, durVars, shVars, flVars, restVars>>

\* handleSearch up to its first await.  Searches are taken one at a time:
\* each run works on the videoDetails of its own request.
StartSearch ==
    /\ appRun.pc = "idle"
    /\ \E t \in AnalysisTypes, w \in ChannelViews, f \in VideoTypeFilters :
           appRun' = [pc |-> "fetching", analysisType |-> t, channelView |-> w,
                      videoTypeFilter |-> f, videoDetails |-> <<>>,
                      subscriberCount |-> 0]
    /\ isLoading' = TRUE
    /\ error' = "none"
    /\ analysisResult' = NoResult
    /\ aiStrategy' = "none"
    /\ shortsAnalysis' = NoShortsAnalysis
    /\ UNCHANGED <<scVars, durVars, shVars, flVars, restVars>>

\* A request of the youtubeService rejects, or finds no channel.
SearchFails ==
    /\ appRun.pc = "fetching"
    /\ error' = "fetch"
    /\ isLoading' = FALSE
    /\ appRun' = [appRun EXCEPT !.pc = "idle"]
    /\ UNCHANGED <<analysisResult, aiStrategy, shortsAnalysis, scVars, durVars, shVars, flVars, restVars>>

\* The promise of getVideoDetails resolves with an array; the handler
\* resumes in a later task.  channelInfo.subscriberCount matters to a
\* SHORTS_MANAGEMENT run only.
VideoDetailsArrive ==
    /\ appRun.pc = "fetching"
    /\ \E details \in AppBatches,
          sub \in (IF appRun.analysisType = "SHORTS_MANAGEMENT" THEN Subscribers ELSE {0}) :
           appRun' = [appRun EXCEPT !.pc = "resolved", !.videoDetails = details,
                                    !.subscriberCount = sub]
    /\ UNCHANGED <<isLoading, error, analysisResult, aiStrategy, shortsAnalysis,
                   scVars, durVars, shVars, flVars, restVars>>

\* The handler resumes with videoDetails in a search that sets
\* analysisResult.
DetailsResolve ==
    /\ appRun.pc = "resolved"
    /\ appRun.analysisType # "SHORTS_MANAGEMENT"
    /\ LET details == appRun.videoDetails
           shown == displayVideos(appRun, details)
           fetched == searchArrays(appRun, details)["fetched"]
       IN  /\ analysisResult' = [set |-> TRUE, videos |-> shown]
           /\ IF Len(shown) > 0
              THEN /\ appRun' = [appRun EXCEPT !.pc = "strategy",
                                                !.videoDetails = fetched]
                   /\ UNCHANGED <<aiStrategy, isLoading>>
              ELSE /\ aiStrategy' = "insufficient"
                   /\ isLoading' = FALSE
                   /\ appRun' = [appRun EXCEPT !.pc = "idle",
                                                !.videoDetails = fetched]
    /\ UNCHANGED <<error, shortsAnalysis, scVars, durVars, shVars, flVars, restVars>>

\* The handler resumes with videoDetails in a SHORTS_MANAGEMENT search.
ShortsDetailsResolve ==
    /\ appRun.pc = "resolved"
    /\ appRun.analysisType = "SHORTS_MANAGEMENT"
    /\ LET arrays == shortsArrays(appRun.videoDetails, appRun.subscriberCount)
           shortsData == analyzeShortsPerformance(appRun.videoDetails,
                                                  appRun.subscriberCount)
       IN  /\ IF Len(shortsData) = 0
              THEN /\ error' = "noShorts"
                   /\ UNCHANGED shortsAnalysis
              ELSE /\ \E drift \in Drifts(avgEngagementOf(shortsData)) :
                          shortsAnalysis' =
                              [set |-> TRUE, videos |-> arrays["shortsData"],
                               summary |-> generateShortsSummary(shortsData, drift)]
                   /\ UNCHANGED error
           /\ appRun' = [appRun EXCEPT !.pc = "idle",
                                        !.videoDetails = arrays["fetched"]]
    /\ analysisResult' = NoResult
    /\ isLoading' = FALSE
    /\ UNCHANGED <<aiStrategy, scVars, durVars, shVars, flVars, restVars>>

\* generateStrategy resolves or rejects; finally setIsLoading(false).
StrategySettles ==
    /\ appRun.pc = "strategy"
    /\ \E a \in {"strategy", "warning"} : aiStrategy' = a
    /\ isLoading' = FALSE
    /\ appRun' = [appRun EXCEPT !.pc = "idle"]
    /\ UNCHANGED <<error, analysisResult, shortsAnalysis, scVars, durVars, shVars, flVars, restVars>>

\* A tab button: the results on screen are cleared.
SelectTab ==
    /\ analysisResult' = NoResult
    /\ error' = "none"
    /\ aiStrategy' = "none"
    /\ shortsAnalysis' = NoShortsAnalysis
    /\ UNCHANGED <<appRun, isLoading, scVars, durVars, shVars, flVars, restVars>>

\* ------------------------------------------------------------------------
\* getVideoDetails: the callback mapping one API item to a VideoData
\* ------------------------------------------------------------------------
NoVideo ==
    [viewCount |-> Num(0), likeCount |-> Num(0), commentCount |-> Num(0),
     score |-> Rational(0, 1), popularityScore |-> [nan |-> FALSE, c |-> 0],
     thrown |-> "none", by |-> "none"]

NoItem == [viewCount |-> [kind |-> "absent", n |-> 0],
           likeCount |-> [kind |-> "absent", n |-> 0],
           commentCount |-> [kind |-> "absent", n |-> 0]]

mapItem(item) ==
    LET viewCount == parseStat(item.viewCount)
        likeCount == parseStat(item.likeCount)
        commentCount == parseStat(item.commentCount)
        score == calculatePopularityScore(viewCount, likeCount, commentCount)
    IN  [viewCount |-> viewCount, likeCount |-> likeCount,
         commentCount |-> commentCount, score |-> score,
         popularityScore |-> toFixed2(score),
         thrown |-> "none", by |-> "constants"]

mapItemInline(item) ==
    LET viewCount == parseStat(item.viewCount)
        likeCount == parseStat(item.likeCount)
        commentCount == parseStat(item.commentCount)
        score == inlineScore(viewCount, likeCount, commentCount)
    IN  [viewCount |-> viewCount, likeCount |-> likeCount,
         commentCount |-> commentCount, score |-> score,
         popularityScore |-> toFixed2(score),
         thrown |-> "none", by |-> "inline"]

\* The videos endpoint answers with an item.
ReceiveItem ==
    /\ scPc = "idle"
    /\ \E v \in RawStats, l \in RawStats, c \in RawStats :
           scItem' = [viewCount |-> v, likeCount |-> l, commentCount |-> c]
    /\ scPc' = "received"
    /\ UNCHANGED <<scVideo, durVars, shVars, appVars, flVars, restVars>>

\* getVideoDetails of the service built on the constants module.
GetVideoDetailsItem ==
    /\ scPc = "received"
    /\ scVideo' = mapItem(scItem)
    /\ scPc' = "mapped"
    /\ UNCHANGED <<scItem, durVars, shVars, appVars, flVars, restVars>>

\* getVideoDetails of services/youtubeService.ts.
GetVideoDetailsItemInline ==
    /\ scPc = "received"
    /\ scVideo' = mapItemInline(scItem)
    /\ scPc' = "mapped"
    /\ UNCHANGED <<scItem, durVars, shVars, appVars, flVars, restVars>>

\* The next analysis request replaces the result.
DiscardItem ==
    /\ scPc = "mapped"
    /\ scPc' = "idle"
    /\ scItem' = NoItem
    /\ scVideo' = NoVideo
    /\ UNCHANGED <<durVars, shVars, appVars, flVars, restVars>>

ScoreIdle ==
    /\ scPc = "idle"
    /\ scItem = NoItem
    /\ scVideo = NoVideo

\* ------------------------------------------------------------------------
\* CSV export: utils escapeCsvValue and convertToCSV, App handleDownloadCSV.
\* Text is a sequence of one-character strings.
\* ------------------------------------------------------------------------
Quote == "\""

Comma == ","

Newline == "\n"

\* CSV_CONFIG.BOM
BOM == "BOM"

\* A cell value is a string or a number
StringValue(str) == [kind |-> "string", str |-> str, n |-> 0]

NumberValue(n) == [kind |-> "number", str |-> <<>>, n |-> n]

\* String(value)
StringOf(value) == IF value.kind = "number" THEN ToDigits(value.n) ELSE value.str

\* str.includes(ch)
includes(str, ch) == \E i \in 1..Len(str) : str[i] = ch

\* str.replace(/"/g, '""')
doubleQuotes(str) ==
    LET f[k \in 0..Len(str)] ==
            IF k = 0 THEN <<>>
            ELSE f[k - 1] \o (IF str[k] = Quote THEN <<Quote, Quote>> ELSE <<str[k]>>)
    IN  f[Len(str)]

escapeCsvValueUnlessQuote(value) ==
    LET strValue == StringOf(value)
    IN  IF includes(strValue, Comma) \/ includes(strValue, Newline)
        THEN <<Quote>> \o doubleQuotes(strValue) \o <<Quote>>
        ELSE strValue

escapeCsvValue(value) ==
    LET strValue == StringOf(value)
    IN  IF includes(strValue, Comma) \/ includes(strValue, Quote)
           \/ includes(strValue, Newline)
        THEN <<Quote>> \o doubleQuotes(strValue) \o <<Quote>>
        ELSE strValue

\* strings.join(separator)
Join(strings, separator) ==
    LET f[k \in 0..Len(strings)] ==
            IF k = 0 THEN <<>>
            ELSE IF k = 1 THEN strings[1]
            ELSE f[k - 1] \o <<separator>> \o strings[k]
    IN  f[Len(strings)]

\* convertToCSV(data, headers); a row of data holds its cells in header
\* order
convertToCSV(data, headers) ==
    LET headerRow == Join(headers, Comma)
        dataRows == [r \in 1..Len(data) |->
                        Join([h \in 1..Len(headers) |-> escapeCsvValue(data[r][h])], Comma)]
    IN  Join(<<headerRow>> \o dataRows, Newline)

\* String(popularityScore) of a score kept in hundredths: 8000 is "80",
\* 850 is "8.5", 17143 is "171.43"
scoreString(c) ==
    LET whole == ToDigits(c \div 100)
        cents == c % 100
    IN  IF cents = 0 THEN whole
        ELSE IF cents % 10 = 0 THEN whole \o <<".">> \o ToDigits(cents \div 10)
        ELSE whole \o <<".", DigitChar[(cents \div 10) + 1], DigitChar[(cents % 10) + 1]>>

\* The header cells of handleDownloadCSV, by their initials
DownloadHeaders == <<<<"T">>, <<"V">>, <<"L">>, <<"C">>, <<"D">>, <<"P">>, <<"U">>, <<"K">>>>

\* https://www.youtube.com/watch?v=${v.id}
linkOf(id) == <<"w", "?", "v", "=">> \o ToDigits(id)

\* The cells of one row of handleDownloadCSV
downloadRow(v) ==
    <<<<Quote>> \o doubleQuotes(v.title) \o <<Quote>>,
      ToDigits(v.viewCount), ToDigits(v.likeCount), ToDigits(v.commentCount),
      ToDigits(v.duration), scoreString(v.popularityScore), v.publishedAt,
      linkOf(v.id)>>

\* new Blob([CSV_CONFIG.BOM + csvContent])
downloadCsv(videos) ==
    LET rows == [r \in 1..Len(videos) |-> downloadRow(videos[r])]
        csvContent == Join(<<Join(DownloadHeaders, Comma)>>
                               \o [r \in 1..Len(rows) |-> Join(rows[r], Comma)],
                           Newline)
    IN  <<BOM>> \o csvContent

CsvChars == {"a", Comma, Quote, Newline}

CsvStrings == UNION {[1..n -> CsvChars] : n \in 0..MaxFieldLen}

CsvValues == {StringValue(str) : str \in CsvStrings} \cup {NumberValue(7), NumberValue(12)}

CsvHeaders == <<<<"k">>, <<"v">>>>

\* A video with a title and an upload date
TitledVideo(id, title, profile, publishedAt) ==
    [VideoData(id, profile.v, profile.l, profile.c, profile.d) EXCEPT !.id = id]
        @@ [title |-> title, publishedAt |-> publishedAt]

DownloadProfiles ==
    {[v |-> 7, l |-> 2, c |-> 0, d |-> 30], [v |-> 1000, l |-> 10, c |-> 5, d |-> 181]}

PublishedAts == {<<>>, <<"2", "0", "2", "4">>}

NoCsvIn == [by |-> "none", data |-> <<>>, videos |-> <<>>]

CsvIdle ==
    /\ csvPc = "idle"
    /\ csvIn = NoCsvIn
    /\ csvOut = <<>>

\* A caller of convertToCSV holds one record of two cells.
ReceiveRecord ==
    /\ csvPc = "idle"
    /\ \E k \in CsvValues, v \in CsvValues :
           csvIn' = [by |-> "convertToCSV", data |-> <<<<k, v>>>>, videos |-> <<>>]
    /\ csvPc' = "ready"
    /\ UNCHANGED <<csvOut, besidesCsv>>

\* analysisResult holds one or two videos when the download is asked for.
ReceiveResultVideos ==
    /\ csvPc = "idle"
    /\ \E title \in CsvStrings, profile \in DownloadProfiles, at \in PublishedAts,
          more \in BOOLEAN :
           csvIn' = [by |-> "handleDownloadCSV", data |-> <<>>,
                     videos |-> <<TitledVideo(1, title, profile, at)>>
                                   \o (IF more
                                       THEN <<TitledVideo(2, <<"a", Comma>>, profile, at)>>
                                       ELSE <<>>)]
    /\ csvPc' = "ready"
    /\ UNCHANGED <<csvOut, besidesCsv>>

\* analysisResult is null or holds no video when the download is asked
\* for: handleDownloadCSV returns at once.
DownloadNothing ==
    /\ csvPc = "idle"
    /\ csvIn' = [by |-> "handleDownloadCSV", data |-> <<>>, videos |-> <<>>]
    /\ csvPc' = "exported"
    /\ UNCHANGED <<csvOut, besidesCsv>>

ConvertToCSV ==
    /\ csvPc = "ready"
    /\ csvIn.by = "convertToCSV"
    /\ csvOut' = convertToCSV(csvIn.data, CsvHeaders)
    /\ csvPc' = "exported"
    /\ UNCHANGED <<csvIn, besidesCsv>>

HandleDownloadCSV ==
    /\ csvPc = "ready"
    /\ csvIn.by = "handleDownloadCSV"
    /\ csvOut' = downloadCsv(csvIn.videos)
    /\ csvPc' = "exported"
    /\ UNCHANGED <<csvIn, besidesCsv>>

\* The text has been handed over.
DiscardCsv ==
    /\ csvPc = "exported"
    /\ csvPc' = "idle"
    /\ csvIn' = NoCsvIn
    /\ csvOut' = <<>>
    /\ UNCHANGED besidesCsv

\* ------------------------------------------------------------------------
\* The ontology client: OptimizedObsidianClient.fetchOntologySnapshot with
\* its cache.  A snapshot is named by where it came from and by the value of
\* clSeq when it arrived.
\* ------------------------------------------------------------------------
ClientCalls == {1, 2}

Snapshot(source, seq) == [source |-> source, seq |-> seq]

\* null
NoSnapshot == Snapshot("none", 0)

\* sampleSnapshot.json
SampleSnapshot == Snapshot("sample", 0)

\* this.cache without the key; seq is clSeq when the entry was written
NoEntry == [set |-> FALSE, data |-> NoSnapshot, timestamp |-> 0, ttl |-> 0, seq |-> 0]

getFromCacheNeverExpires(entry, now) ==
    IF ~entry.set THEN NoSnapshot ELSE entry.data

\* getFromCache(key): what it returns
getFromCache(entry, now) ==
    IF ~entry.set THEN NoSnapshot
    ELSE IF now - entry.timestamp > entry.ttl THEN NoSnapshot
    ELSE entry.data

\* getFromCache(key): the cache it leaves
cacheAfterGet(entry, now) ==
    IF entry.set /\ now - entry.timestamp > entry.ttl THEN NoEntry ELSE entry

\* setCache(key, data)
setCache(data, now, seq) ==
    [set |-> TRUE, data |-> data, timestamp |-> now, ttl |-> CacheTTL, seq |-> seq]

NoFetchResult == [kind |-> "none", data |-> NoSnapshot, age |-> 0, seq |-> 0]

NoCall ==
    [pc |-> "idle", forceRefresh |-> FALSE, startSeq |-> 0, cleared |-> 0,
     tried |-> <<>>, result |-> NoFetchResult]

sourceAfterSkippingFile(source) == "sample"

\* The source tried when the given one failed
sourceAfter(source) == IF source = "api" THEN "file" ELSE "sample"

ClientIdle ==
    /\ clNow = 0
    /\ clCache = NoEntry
    /\ clCalls = [c \in ClientCalls |-> NoCall]
    /\ clSeq = 0
    /\ clCleared = 0

\* Time passes.
ClientTick ==
    /\ clNow < MaxClock
    /\ clNow' = clNow + 1
    /\ UNCHANGED <<clCache, clCalls, clSeq, clCleared, besidesCl>>

\* fetchOntologySnapshot(options) up to its first await: a call without
\* forceRefresh returns a live cache entry at once, a call with it deletes
\* the entry; otherwise the call goes on to fetchFromAPI.
CallFetchOntologySnapshot ==
    /\ clSeq < MaxSeq
    /\ \E c \in ClientCalls, forceRefresh \in BOOLEAN :
           /\ clCalls[c].pc = "idle"
           /\ LET cached == IF forceRefresh THEN NoSnapshot
                            ELSE getFromCache(clCache, clNow)
                  call == [NoCall EXCEPT !.forceRefresh = forceRefresh,
                                         !.startSeq = clSeq + 1,
                                         !.cleared = clCleared]
              IN  /\ clCache' = IF forceRefresh THEN NoEntry
                                ELSE cacheAfterGet(clCache, clNow)
                  /\ clCalls' = [clCalls EXCEPT ![c] =
                         IF cached # NoSnapshot
                         THEN [call EXCEPT !.pc = "done",
                                           !.result = [kind |-> "cache", data |-> cached,
                                                       age |-> clNow - clCache.timestamp,
                                                       seq |-> clCache.seq]]
                         ELSE [call EXCEPT !.pc = "api"]]
    /\ clSeq' = clSeq + 1
    /\ UNCHANGED <<clNow, clCleared, besidesCl>>

\* fetchFromAPI or fetchFromFileExport settles: on success the snapshot is
\* cached and returned, on failure the next source is tried, and after the
\* file export the sample is returned.
SourceSettles ==
    /\ clSeq < MaxSeq
    /\ \E c \in ClientCalls, ok \in BOOLEAN :
           LET call == clCalls[c]
               tried == Append(call.tried, [source |-> call.pc, ok |-> ok])
               snapshot == Snapshot(call.pc, clSeq + 1)
               next == sourceAfter(call.pc)
           IN  /\ call.pc \in {"api", "file"}
               /\ clCache' = IF ok THEN setCache(snapshot, clNow, clSeq + 1) ELSE clCache
               /\ clCalls' = [clCalls EXCEPT ![c] =
                      IF ok
                      THEN [call EXCEPT !.pc = "done", !.tried = tried,
                                        !.result = [kind |-> call.pc, data |-> snapshot,
                                                    age |-> 0, seq |-> 0]]
                      ELSE IF next = "sample"
                      THEN [call EXCEPT !.pc = "done", !.tried = tried,
                                        !.result = [kind |-> "sample",
                                                    data |-> SampleSnapshot,
                                                    age |-> 0, seq |-> 0]]
                      ELSE [call EXCEPT !.pc = next, !.tried = tried]]
    /\ clSeq' = clSeq + 1
    /\ UNCHANGED <<clNow, clCleared, besidesCl>>

\* clearCache()
ClearCache ==
    /\ clSeq < MaxSeq
    /\ clCache' = NoEntry
    /\ clSeq' = clSeq + 1
    /\ clCleared' = clSeq + 1
    /\ UNCHANGED <<clNow, clCalls, besidesCl>>

\* The caller resumes with the snapshot.
TakeSnapshot ==
    /\ \E c \in ClientCalls :
           /\ clCalls[c].pc = "done"
           /\ clCalls' = [clCalls EXCEPT ![c] = NoCall]
    /\ UNCHANGED <<clNow, clCache, clSeq, clCleared, besidesCl>>

\* ------------------------------------------------------------------------
\* OptimizedObsidianClient.retryFetch
\* ------------------------------------------------------------------------
DefaultRetryAttempts == 3

\* config.retryAttempts || 3, with 0 standing for a missing value
retryAttemptsOf(config) == IF config = 0 THEN DefaultRetryAttempts ELSE config

RetryConfigs == 0..MaxAttempts

\* What one fetch can do: answer with an ok or a non-ok status, or throw
FetchOutcomes ==
    {[ok |-> TRUE, status |-> 200, thrown |-> "none"],
     [ok |-> FALSE, status |-> 404, thrown |-> "none"],
     [ok |-> FALSE, status |-> 500, thrown |-> "none"],
     [ok |-> FALSE, status |-> 0, thrown |-> "TypeError"],
     [ok |-> FALSE, status |-> 0, thrown |-> "TimeoutError"]}

\* The error caught in the given attempt
errorOf(outcome, attempt) ==
    [message |-> IF outcome.thrown = "none" THEN <<"HTTP", outcome.status>>
                 ELSE <<outcome.thrown>>,
     attempt |-> attempt]

\* new Error('Unknown error')
UnknownError == [message |-> <<"Unknown error">>, attempt |-> 0]

backoffDelayLinear(attempt) == 2 * attempt * 1000

\* Math.pow(2, attempt) * 1000
backoffDelay(attempt) == (2 ^ attempt) * 1000

FetchEvent(attempt, outcome) ==
    [kind |-> "fetch", attempt |-> attempt, ok |-> outcome.ok,
     error |-> IF outcome.ok THEN UnknownError ELSE errorOf(outcome, attempt), ms |-> 0]

SleepEvent(attempt, ms) ==
    [kind |-> "sleep", attempt |-> attempt, ok |-> FALSE, error |-> UnknownError, ms |-> ms]

NoRetryOut == [kind |-> "none", error |-> UnknownError, attempt |-> 0]

RetryIdle ==
    /\ rtPc = "idle"
    /\ rtRetryAttempts = DefaultRetryAttempts
    /\ rtAttempt = 0
    /\ rtLastError = UnknownError
    /\ rtOut = NoRetryOut
    /\ rtLog = <<>>

\* new OptimizedObsidianClient(config)
ConstructClient ==
    /\ rtPc = "idle"
    /\ \E config \in RetryConfigs : rtRetryAttempts' = retryAttemptsOf(config)
    /\ UNCHANGED <<rtPc, rtAttempt, rtLastError, rtOut, rtLog, besidesRt>>

\* retryFetch(url, options) up to the first fetch
CallRetryFetch ==
    /\ rtPc = "idle"
    /\ rtLastError' = UnknownError
    /\ rtAttempt' = 1
    /\ rtPc' = IF 1 <= rtRetryAttempts THEN "fetching" ELSE "thrown"
    /\ rtOut' = IF 1 <= rtRetryAttempts THEN NoRetryOut
                ELSE [kind |-> "thrown", error |-> UnknownError, attempt |-> 0]
    /\ rtLog' = <<>>
    /\ UNCHANGED <<rtRetryAttempts, besidesRt>>

\* The awaited fetch settles: an ok response is returned; otherwise the
\* error is kept, and the call sleeps when attempts remain, or leaves the
\* loop and throws lastError.
FetchSettles ==
    /\ rtPc = "fetching"
    /\ \E outcome \in FetchOutcomes :
           LET caught == errorOf(outcome, rtAttempt)
               fetched == Append(rtLog, FetchEvent(rtAttempt, outcome))
           IN  IF outcome.ok
               THEN /\ rtPc' = "returned"
                    /\ rtOut' = [kind |-> "returned", error |-> UnknownError,
                                 attempt |-> rtAttempt]
                    /\ rtLog' = fetched
                    /\ UNCHANGED <<rtAttempt, rtLastError>>
               ELSE /\ rtLastError' = caught
                    /\ IF rtAttempt < rtRetryAttempts
                       THEN /\ rtPc' = "sleeping"
                            /\ rtLog' = Append(fetched,
                                               SleepEvent(rtAttempt, backoffDelay(rtAttempt)))
                            /\ UNCHANGED <<rtAttempt, rtOut>>
                       ELSE /\ rtPc' = "thrown"
                            /\ rtAttempt' = rtAttempt + 1
                            /\ rtOut' = [kind |-> "thrown", error |-> caught, attempt |-> 0]
                            /\ rtLog' = fetched
    /\ UNCHANGED <<rtRetryAttempts, besidesRt>>

\* The timer of sleep(delay) fires and the loop goes round.
SleepEnds ==
    /\ rtPc = "sleeping"
    /\ rtAttempt' = rtAttempt + 1
    /\ rtPc' = "fetching"
    /\ UNCHANGED <<rtRetryAttempts, rtLastError, rtOut, rtLog, besidesRt>>

\* The caller resumes with the response or the error.
RetryFetchDone ==
    /\ rtPc \in {"returned", "thrown"}
    /\ rtPc' = "idle"
    /\ rtAttempt' = 0
    /\ rtLastError' = UnknownError
    /\ rtOut' = NoRetryOut
    /\ rtLog' = <<>>
    /\ UNCHANGED <<rtRetryAttempts, besidesRt>>

\* ------------------------------------------------------------------------
\* The ontology store (useOntologyStore: loadOntology, updateEntity) and the
\* refreshOntology callback of the dashboard App.
\* ------------------------------------------------------------------------
LoadIds == {1, 2}

\* entity.name of an entity without a name
NoName == "undefined"

Entity(id, title, name, status) ==
    [id |-> id, title |-> title, name |-> name, status |-> status]

\* Snapshots the fetches can answer with
FetchedSnapshots ==
    {[generatedAt |-> "t1",
      entities |-> <<Entity("e1", "a", NoName, "active"),
                     Entity("e2", "b", "B", "active")>>],
     [generatedAt |-> "t2", entities |-> <<Entity("e2", "b", "B", "draft")>>],
     [generatedAt |-> "t0", entities |-> <<Entity("s1", "sample", NoName, "active")>>],
     [generatedAt |-> "t3", entities |-> <<>>]}

\* What an awaited snapshot fetch hands to loadOntology: a snapshot (maybe
\* without entities), or a value whose entities cannot be read or mapped
FetchAnswers ==
    {[throws |-> FALSE, snapshot |-> sn] : sn \in FetchedSnapshots}
        \cup {[throws |-> TRUE, snapshot |-> [generatedAt |-> "", entities |-> <<>>]]}

\* normalizeEntity(entity), of the modelled fields
normalizeEntity(entity) ==
    [entity EXCEPT !.name = IF entity.name = NoName THEN entity.title ELSE entity.name]

\* entities.map(f)
MapSeq(entities, f(_)) == [i \in 1..Len(entities) |-> f(entities[i])]

\* null
NoStoreSnapshot == [null |-> TRUE, generatedAt |-> "", entities |-> <<>>]

StoreSnapshot(snapshot, entities) ==
    [null |-> FALSE, generatedAt |-> snapshot.generatedAt, entities |-> entities]

\* { ...entity, ...updates }
applyUpdates(entity, updates) == [entity EXCEPT ![updates.field] = updates.value]

\* state.entities.map(entity => entity.id === id ? {...entity, ...updates} : entity)
updateEntities(entities, id, updates) ==
    MapSeq(entities, LAMBDA e : IF e.id = id THEN applyUpdates(e, updates) ELSE e)

updateSnapshotKept(snapshot, id, updates) == snapshot

\* The snapshot updateEntity stores
updateSnapshot(snapshot, id, updates) ==
    IF ~snapshot.null
    THEN [snapshot EXCEPT !.entities = updateEntities(snapshot.entities, id, updates)]
    ELSE NoStoreSnapshot

EntityIds == {"e1", "e2", "s1"}

EntityUpdates ==
    {[field |-> "status", value |-> "done"], [field |-> "id", value |-> "e1"],
     [field |-> "name", value |-> "n"]}

NoLoad == [pc |-> "idle", optimized |-> FALSE, byRefresh |-> FALSE, caught |-> ""]

StoreIdle ==
    /\ stLoading = FALSE
    /\ stError = "null"
    /\ stSnapshot = NoStoreSnapshot
    /\ stEntities = <<>>
    /\ stLastUpdated = "null"
    /\ stLoads = [l \in LoadIds |-> NoLoad]
    /\ apMounted = FALSE
    /\ autoRefreshEnabled = FALSE
    /\ refreshInFlightRef = FALSE
    /\ isRefreshing = FALSE
    /\ lastRefreshTime = "null"

\* loadOntology(url, options) up to its first await, in a free slot
StartLoad(l, optimized, byRefresh) ==
    /\ stLoads[l].pc = "idle"
    /\ stLoading' = TRUE
    /\ stError' = "null"
    /\ stLoads' = [stLoads EXCEPT ![l] = [pc |-> "primary", optimized |-> optimized,
                                          byRefresh |-> byRefresh, caught |-> ""]]
    /\ UNCHANGED <<stSnapshot, stEntities, stLastUpdated>>

\* refreshOntology(): nothing when a refresh is in flight; otherwise the
\* flag is set and loadOntology(DATA_URL, {forceRefresh: true}) starts.
RefreshOntology ==
    IF refreshInFlightRef
    THEN UNCHANGED <<stLoading, stError, stSnapshot, stEntities, stLastUpdated, stLoads,
                     refreshInFlightRef, isRefreshing>>
    ELSE /\ refreshInFlightRef' = TRUE
         /\ isRefreshing' = TRUE
         /\ \E l \in LoadIds, optimized \in BOOLEAN : StartLoad(l, optimized, TRUE)

\* The App mounts: the initial-load effect calls refreshOntology, and the
\* auto-refresh effect calls it again when the saved setting is on.
MountApp ==
    /\ ~apMounted
    /\ apMounted' = TRUE
    /\ autoRefreshEnabled' \in BOOLEAN
    /\ RefreshOntology
    /\ UNCHANGED <<lastRefreshTime, besidesSt>>

\* The user switches auto-refresh; switching it on runs the effect, which
\* calls refreshOntology and sets the interval.
ToggleAutoRefresh ==
    /\ apMounted
    /\ autoRefreshEnabled' = ~autoRefreshEnabled
    /\ IF ~autoRefreshEnabled THEN RefreshOntology
       ELSE UNCHANGED <<stLoading, stError, stSnapshot, stEntities, stLastUpdated,
                        stLoads, refreshInFlightRef, isRefreshing>>
    /\ UNCHANGED <<apMounted, lastRefreshTime, besidesSt>>

\* The interval of the auto-refresh effect fires.
TimerTick ==
    /\ apMounted
    /\ autoRefreshEnabled
    /\ RefreshOntology
    /\ UNCHANGED <<apMounted, autoRefreshEnabled, lastRefreshTime, besidesSt>>

\* The user clicks the refresh or the retry button.
ManualRefresh ==
    /\ apMounted
    /\ RefreshOntology
    /\ UNCHANGED <<apMounted, autoRefreshEnabled, lastRefreshTime, besidesSt>>

\* Another caller of the store (a second mount of the App, for one) calls
\* loadOntology.
OtherLoad ==
    /\ \E l \in LoadIds, optimized \in BOOLEAN : StartLoad(l, optimized, FALSE)
    /\ UNCHANGED <<apMounted, autoRefreshEnabled, refreshInFlightRef, isRefreshing,
                   lastRefreshTime, besidesSt>>

\* The set({...}) of a successful load
LoadSucceeds(snapshot) ==
    LET normalizedEntities == MapSeq(snapshot.entities, normalizeEntity)
    IN  /\ stLoading' = FALSE
        /\ stSnapshot' = StoreSnapshot(snapshot, normalizedEntities)
        /\ stEntities' = normalizedEntities
        /\ stLastUpdated' = snapshot.generatedAt
        /\ stError' = "null"

\* The set({...}) of a failed load
LoadFails(message) ==
    /\ stLoading' = FALSE
    /\ stError' = message
    /\ UNCHANGED <<stSnapshot, stEntities, stLastUpdated>>

refreshEndsOnSuccessOnly(byRefresh, failed) ==
    IF byRefresh /\ ~failed
    THEN /\ refreshInFlightRef' = FALSE
         /\ isRefreshing' = FALSE
         /\ lastRefreshTime' = "time"
    ELSE UNCHANGED <<refreshInFlightRef, isRefreshing, lastRefreshTime>>

\* refreshOntology after its await: loadOntology has resolved (it catches
\* everything), the time is noted and the finally block clears the flag.
refreshEnds(byRefresh, failed) ==
    IF byRefresh
    THEN /\ refreshInFlightRef' = FALSE
         /\ isRefreshing' = FALSE
         /\ lastRefreshTime' = "time"
    ELSE UNCHANGED <<refreshInFlightRef, isRefreshing, lastRefreshTime>>

\* The load in slot l goes on awaiting another fetch.
LoadAwaits(l, pc, caught) ==
    /\ stLoads' = [stLoads EXCEPT ![l].pc = pc, ![l].caught = caught]
    /\ UNCHANGED <<stLoading, stError, stSnapshot, stEntities, stLastUpdated,
                   refreshInFlightRef, isRefreshing, lastRefreshTime>>

\* An awaited fetch of a loadOntology call settles and the call runs to its
\* next await or to its end.
LoadFetchSettles ==
    /\ \E l \in LoadIds, answer \in FetchAnswers :
           LET load == stLoads[l]
               empty == answer.snapshot.entities = <<>>
           IN  /\ load.pc # "idle"
               /\ CASE load.pc = "primary" /\ answer.throws ->
                          IF load.optimized THEN LoadAwaits(l, "errorFallback", "TypeError")
                          ELSE /\ LoadFails("TypeError")
                               /\ stLoads' = [stLoads EXCEPT ![l] = NoLoad]
                               /\ refreshEnds(load.byRefresh, TRUE)
                    [] load.pc = "primary" /\ ~answer.throws /\ load.optimized /\ empty ->
                          LoadAwaits(l, "emptyFallback", "")
                    [] load.pc = "emptyFallback" /\ answer.throws ->
                          LoadAwaits(l, "errorFallback", "TypeError")
                    [] load.pc = "errorFallback" /\ answer.throws ->
                          /\ LoadFails(load.caught)
                          /\ stLoads' = [stLoads EXCEPT ![l] = NoLoad]
                          /\ refreshEnds(load.byRefresh, TRUE)
                    [] OTHER ->
                          /\ LoadSucceeds(answer.snapshot)
                          /\ stLoads' = [stLoads EXCEPT ![l] = NoLoad]
                          /\ refreshEnds(load.byRefresh, FALSE)
    /\ UNCHANGED <<apMounted, autoRefreshEnabled, besidesSt>>

\* updateEntity(id, updates)
UpdateEntity ==
    /\ \E id \in EntityIds, updates \in EntityUpdates :
           /\ stEntities' = updateEntities(stEntities, id, updates)
           /\ stSnapshot' = updateSnapshot(stSnapshot, id, updates)
    /\ UNCHANGED <<stLoading, stError, stLastUpdated, stLoads, apMounted,
                   autoRefreshEnabled, refreshInFlightRef, isRefreshing, lastRefreshTime,
                   besidesSt>>

\* ------------------------------------------------------------------------
\* handleSearch of the main App as the search box starts it: the button is
\* disabled while isLoading, the Enter key of the input is not.
\* ------------------------------------------------------------------------
SearchRuns == {1, 2}

NoSearchRun == [pc |-> "idle", serial |-> 0]

SearchIdle ==
    /\ seRuns = [r \in SearchRuns |-> NoSearchRun]
    /\ seStarted = 0
    /\ seIsLoading = FALSE
    /\ seError = 0
    /\ seResult = 0
    /\ seStrategy = 0

\* handleSearch() up to its first await, past the two validations
BeginSearch ==
    /\ seStarted < MaxSearches
    /\ \E r \in SearchRuns :
           /\ seRuns[r].pc = "idle"
           /\ seRuns' = [seRuns EXCEPT ![r] = [pc |-> "fetching", serial |-> seStarted + 1]]
    /\ seStarted' = seStarted + 1
    /\ seIsLoading' = TRUE
    /\ seError' = 0
    /\ seResult' = 0
    /\ seStrategy' = 0

\* onClick of the button, which is disabled while isLoading
ClickSearch ==
    /\ ~seIsLoading
    /\ BeginSearch
    /\ UNCHANGED besidesSe

\* onKeyDown of the input: Enter calls handleSearch
PressEnter ==
    /\ BeginSearch
    /\ UNCHANGED besidesSe

\* handleSearch() with no API key or an empty query: the error is set and
\* the handler returns.
SearchInvalid ==
    /\ seStarted < MaxSearches
    /\ seStarted' = seStarted + 1
    /\ seError' = seStarted + 1
    /\ UNCHANGED <<seRuns, seIsLoading, seResult, seStrategy, besidesSe>>

\* The fetches of a run settle: with videos the result is shown and the
\* strategy is awaited; without videos the result and a fixed strategy text
\* are shown; on failure the error is shown.  finally: isLoading false.
SearchFetchSettles ==
    /\ \E r \in SearchRuns, outcome \in {"videos", "none", "fails"} :
           LET run == seRuns[r]
           IN  /\ run.pc = "fetching"
               /\ CASE outcome = "videos" ->
                          /\ seResult' = run.serial
                          /\ seRuns' = [seRuns EXCEPT ![r].pc = "strategy"]
                          /\ UNCHANGED <<seIsLoading, seError, seStrategy>>
                    [] outcome = "none" ->
                          /\ seResult' = run.serial
                          /\ seStrategy' = run.serial
                          /\ seIsLoading' = FALSE
                          /\ seRuns' = [seRuns EXCEPT ![r] = NoSearchRun]
                          /\ UNCHANGED seError
                    [] outcome = "fails" ->
                          /\ seError' = run.serial
                          /\ seIsLoading' = FALSE
                          /\ seRuns' = [seRuns EXCEPT ![r] = NoSearchRun]
                          /\ UNCHANGED <<seResult, seStrategy>>
    /\ UNCHANGED <<seStarted, besidesSe>>

\* generateStrategy settles (its failure is shown as the strategy text).
SearchStrategySettles ==
    /\ \E r \in SearchRuns :
           /\ seRuns[r].pc = "strategy"
           /\ seStrategy' = seRuns[r].serial
           /\ seIsLoading' = FALSE
           /\ seRuns' = [seRuns EXCEPT ![r] = NoSearchRun]
    /\ UNCHANGED <<seStarted, seError, seResult, besidesSe>>

\* ------------------------------------------------------------------------
\* The API-key dialog: ApiKeyModal with handleTest
\* ------------------------------------------------------------------------
ApiKeys == {"k1", "k2", "k3"}

\* The keys the API accepts
ValidKeys == {"k1", "k2"}

KeyTests == {1, 2}

NoKeyTest == [pc |-> "idle", key |-> ""]

KeyIdle ==
    /\ kyInput = ""
    /\ kyStatus = "IDLE"
    /\ kyTests = [t \in KeyTests |-> NoKeyTest]
    /\ kyTested = ""

\* onChange of the input
EditKeyInput ==
    /\ \E key \in ApiKeys \cup {""} :
           /\ key # kyInput
           /\ kyInput' = key
    /\ kyStatus' = "IDLE"
    /\ UNCHANGED <<kyTests, kyTested, besidesKy>>

\* The effect on [isOpen, currentApiKey]: the dialog opens or closes, or the
\* saved key changes.
KeyDialogResets ==
    /\ \E currentApiKey \in ApiKeys \cup {""} : kyInput' = currentApiKey
    /\ kyStatus' = "IDLE"
    /\ UNCHANGED <<kyTests, kyTested, besidesKy>>

\* handleTest() up to its await; the button is disabled while TESTING
ClickTest ==
    /\ kyStatus # "TESTING"
    /\ IF kyInput = ""
       THEN /\ kyStatus' = "FAILURE"
            /\ kyTested' = ""
            /\ UNCHANGED kyTests
       ELSE /\ kyStatus' = "TESTING"
            /\ \E t \in KeyTests :
                   /\ kyTests[t].pc = "idle"
                   /\ kyTests' = [kyTests EXCEPT ![t] = [pc |-> "testing", key |-> kyInput]]
            /\ UNCHANGED kyTested
    /\ UNCHANGED <<kyInput, besidesKy>>

\* testApiKey(key) resolves and handleTest sets the status; a valid key can
\* still be refused (quota, network).
KeyTestSettles ==
    /\ \E t \in KeyTests, success \in BOOLEAN :
           /\ kyTests[t].pc = "testing"
           /\ success => kyTests[t].key \in ValidKeys
           /\ kyStatus' = IF success THEN "SUCCESS" ELSE "FAILURE"
           /\ kyTested' = kyTests[t].key
           /\ kyTests' = [kyTests EXCEPT ![t] = NoKeyTest]
    /\ UNCHANGED <<kyInput, besidesKy>>

RestIdle ==
    /\ CsvIdle
    /\ ClientIdle
    /\ RetryIdle
    /\ StoreIdle
    /\ SearchIdle
    /\ KeyIdle

InitScore ==
    /\ ScoreIdle
    /\ DurationIdle
    /\ ShortsIdle
    /\ AppIdle
    /\ FilterIdle
    /\ RestIdle

NextScore ==
    \/ ReceiveItem
    \/ GetVideoDetailsItem
    \/ GetVideoDetailsItemInline
    \/ DiscardItem

SpecScore == InitScore /\ [][NextScore]_vars

InitDuration ==
    /\ DurationIdle
    /\ ScoreIdle
    /\ ShortsIdle
    /\ AppIdle
    /\ FilterIdle
    /\ RestIdle

NextDuration ==
    \/ ReceiveDurationString
    \/ ReceiveDurationMissing
    \/ ReceiveDurationEncoded
    \/ ParseDuration
    \/ ServiceParseDuration
    \/ DiscardDuration

SpecDuration == InitDuration /\ [][NextDuration]_vars

InitShorts ==
    /\ ShortsIdle
    /\ ScoreIdle
    /\ DurationIdle
    /\ AppIdle
    /\ FilterIdle
    /\ RestIdle

NextShorts ==
    \/ FetchVideos
    \/ FetchRankedVideos
    \/ FetchExampleVideos
    \/ AnalyzeShortsPerformance
    \/ ReceiveShortsData
    \/ ReceiveTaggedShortsData
    \/ GenerateShortsSummary
    \/ DiscardShorts

SpecShorts == InitShorts /\ [][NextShorts]_vars

InitApp ==
    /\ AppIdle
    /\ ScoreIdle
    /\ DurationIdle
    /\ ShortsIdle
    /\ FilterIdle
    /\ RestIdle

NextApp ==
    \/ SearchRejected
    \/ StartSearch
    \/ SearchFails
    \/ VideoDetailsArrive
    \/ DetailsResolve
    \/ ShortsDetailsResolve
    \/ StrategySettles
    \/ SelectTab

SpecApp == InitApp /\ [][NextApp]_vars

InitFilter ==
    /\ FilterIdle
    /\ ScoreIdle
    /\ DurationIdle
    /\ ShortsIdle
    /\ AppIdle
    /\ RestIdle

NextFilter ==
    \/ CallFilterWithLimit
    \/ CallFilterWithoutLimit
    \/ FilterByVideoType
    \/ DiscardFilter

SpecFilter == InitFilter /\ [][NextFilter]_vars

InitCsv ==
    /\ ScoreIdle
    /\ DurationIdle
    /\ ShortsIdle
    /\ AppIdle
    /\ FilterIdle
    /\ RestIdle

NextCsv ==
    \/ ReceiveRecord
    \/ ReceiveResultVideos
    \/ DownloadNothing
    \/ ConvertToCSV
    \/ HandleDownloadCSV
    \/ DiscardCsv

SpecCsv == InitCsv /\ [][NextCsv]_vars

InitClient ==
    /\ ScoreIdle
    /\ DurationIdle
    /\ ShortsIdle
    /\ AppIdle
    /\ FilterIdle
    /\ RestIdle

NextClient ==
    \/ ClientTick
    \/ CallFetchOntologySnapshot
    \/ SourceSettles
    \/ ClearCache
    \/ TakeSnapshot

SpecClient == InitClient /\ [][NextClient]_vars

InitRetry ==
    /\ ScoreIdle
    /\ DurationIdle
    /\ ShortsIdle
    /\ AppIdle
    /\ FilterIdle
    /\ RestIdle

NextRetry ==
    \/ ConstructClient
    \/ CallRetryFetch
    \/ FetchSettles
    \/ SleepEnds
    \/ RetryFetchDone

SpecRetry == InitRetry /\ [][NextRetry]_vars

InitStore ==
    /\ ScoreIdle
    /\ DurationIdle
    /\ ShortsIdle
    /\ AppIdle
    /\ FilterIdle
    /\ RestIdle

NextStore ==
    \/ MountApp
    \/ ToggleAutoRefresh
    \/ TimerTick
    \/ ManualRefresh
    \/ OtherLoad
    \/ LoadFetchSettles
    \/ UpdateEntity

SpecStore == InitStore /\ [][NextStore]_vars

InitSearch ==
    /\ ScoreIdle
    /\ DurationIdle
    /\ ShortsIdle
    /\ AppIdle
    /\ FilterIdle
    /\ RestIdle

NextSearch ==
    \/ ClickSearch
    \/ PressEnter
    \/ SearchInvalid
    \/ SearchFetchSettles
    \/ SearchStrategySettles

SpecSearch == InitSearch /\ [][NextSearch]_vars

InitKey ==
    /\ ScoreIdle
    /\ DurationIdle
    /\ ShortsIdle
    /\ AppIdle
    /\ FilterIdle
    /\ RestIdle

NextKey ==
    \/ EditKeyInput
    \/ KeyDialogResets
    \/ ClickTest
    \/ KeyTestSettles

SpecKey == InitKey /\ [][NextKey]_vars

\* Every fetch carries AbortSignal.timeout(this.config.timeout), so it
\* settles, and the timer of sleep fires.
SpecRetryFair ==
    /\ SpecRetry
    /\ WF_vars(FetchSettles)
    /\ WF_vars(SleepEnds)

\* ------------------------------------------------------------------------
\* Properties of the scoring (SpecScore)
\* ------------------------------------------------------------------------
Mapped == scPc = "mapped"

ValidCounter(x) == ~x.nan /\ x.n >= 0

ValidCounters ==
    /\ ValidCounter(scVideo.viewCount)
    /\ ValidCounter(scVideo.likeCount)
    /\ ValidCounter(scVideo.commentCount)

\* The stored score is 0 for no views and otherwise a hundredth nearest to
\* (likeCount * 0.6 + commentCount * 0.4) / viewCount * 1000.
ScoreIsRoundedFormula ==
    LET v == scVideo.viewCount.n
        l == scVideo.likeCount.n
        c == scVideo.commentCount.n
        p == scVideo.popularityScore
    IN  /\ ~p.nan
        /\ v = 0 => p.c = 0
        /\ v > 0 => 2 * Abs(p.c * v - (600 * l + 400 * c) * 100) <= v

CountersAre(v, l, c) ==
    /\ scVideo.viewCount = Num(v)
    /\ scVideo.likeCount = Num(l)
    /\ scVideo.commentCount = Num(c)

\* C1 (as amended): for non-negative integer counters the popularity score
\* is 0 when viewCount is 0 and otherwise
\* ((likeCount * 0.6 + commentCount * 0.4) / viewCount) * 1000 rounded to 2
\* decimal places; v=1000,l=100,c=50 gives 80.0, v=1000,l=10,c=5 gives 8.0
\* and v=1000,l=500,c=200 gives 380.0.
C1_ScoreFormula ==
    (Mapped /\ ValidCounters) =>
        /\ ScoreIsRoundedFormula
        /\ CountersAre(1000, 100, 50) => scVideo.popularityScore.c = 8000
        /\ CountersAre(1000, 10, 5) => scVideo.popularityScore.c = 800
        /\ CountersAre(1000, 500, 200) => scVideo.popularityScore.c = 38000

\* C1 (as stated): the same formula, with the examples 86.0, 8.6 and 380.0.
C1_ScoreFormulaAsStated ==
    (Mapped /\ ValidCounters) =>
        /\ ScoreIsRoundedFormula
        /\ CountersAre(1000, 100, 50) => scVideo.popularityScore.c = 8600
        /\ CountersAre(1000, 10, 5) => scVideo.popularityScore.c = 860
        /\ CountersAre(1000, 500, 200) => scVideo.popularityScore.c = 38000

\* C1 witness: the item v=1000,l=100,c=50 has been scored by the service
\* built on calculatePopularityScore.
C1_Witness ==
    /\ Mapped
    /\ scVideo.by = "constants"
    /\ CountersAre(1000, 100, 50)
    /\ scVideo.popularityScore.c = 8000

\* C2 (as stated): scoring a negative or non-finite counter fails with
\* InvalidInput and never yields a score.
C2_InvalidInputRaises ==
    (Mapped /\ ~ValidCounters) => scVideo.thrown = "InvalidInput"

ScoreOf(v, l, c) == toFixed2(calculatePopularityScore(Num(v), Num(l), Num(c))).c

\* C3: for valid counters with viewCount > 0 the rounded score does not
\* decrease when likeCount or commentCount grows (doubling likeCount
\* included) and does not increase when viewCount grows.
C3_ScoreMonotone ==
    (Mapped /\ ValidCounters /\ scVideo.viewCount.n > 0) =>
        LET v == scVideo.viewCount.n
            l == scVideo.likeCount.n
            c == scVideo.commentCount.n
            p == scVideo.popularityScore.c
        IN  /\ p >= 0
            /\ \A l2 \in CountValues : l2 >= l => ScoreOf(v, l2, c) >= p
            /\ \A c2 \in CountValues : c2 >= c => ScoreOf(v, l, c2) >= p
            /\ \A v2 \in CountValues : v2 >= v => ScoreOf(v2, l, c) <= p
            /\ ScoreOf(v, 2 * l, c) >= p

\* C3 witness: an item with views, likes and comments has been scored and
\* an item with more views would score strictly less.
C3_Witness ==
    /\ Mapped
    /\ ValidCounters
    /\ scVideo.viewCount.n = 2
    /\ scVideo.likeCount.n = 1
    /\ scVideo.commentCount.n = 1
    /\ ScoreOf(3, 1, 1) < scVideo.popularityScore.c

\* C5 (as stated): for non-negative counters the value returned by
\* calculatePopularityScore lies within 0..1000.
C5_ScoreWithinRange ==
    (Mapped /\ ValidCounters /\ scVideo.by = "constants") =>
        /\ scVideo.score.num >= 0
        /\ scVideo.score.num <= 1000 * scVideo.score.den

\* ------------------------------------------------------------------------
\* Properties of the duration parsing (SpecDuration)
\* ------------------------------------------------------------------------
Parsed == durPc = "parsed"

Component(k) == IF k < 0 THEN 0 ELSE k

\* The whole string has the form PT[<digits>H][<digits>M][<digits>S].
WellFormedDuration(d) ==
    /\ d.kind = "string"
    /\ Len(d.chars) >= 2
    /\ d.chars[1] = "P"
    /\ d.chars[2] = "T"
    /\ LET h == Group(d.chars, 3, "H")
           m == Group(d.chars, h.next, "M")
           sec == Group(d.chars, m.next, "S")
       IN  sec.next = Len(d.chars) + 1

\* C6: parsing the compact notation of optional hours, minutes and seconds
\* returns hours*3600 + minutes*60 + seconds with every missing component
\* counted as 0 (PT1H30M45S gives 5445, PT5M gives 300).
C6_DurationSum ==
    (Parsed /\ durIn.parts.given) =>
        /\ durOut.thrown = "none"
        /\ durOut.value = Component(durIn.parts.h) * 3600
                          + Component(durIn.parts.m) * 60
                          + Component(durIn.parts.s)
        /\ durIn.chars = <<"P", "T", "5", "M">> => durOut.value = 300
        /\ durIn.chars = <<"P", "T", "1", "H", "3", "0", "M", "4", "5", "S">>
               => durOut.value = 5445

\* C6 witness: utils parseDuration has parsed PT1H30M45S to 5445.
C6_Witness ==
    /\ Parsed
    /\ durOut.by = "utils"
    /\ durIn.chars = <<"P", "T", "1", "H", "3", "0", "M", "4", "5", "S">>
    /\ durIn.parts = [given |-> TRUE, h |-> 1, m |-> 30, s |-> 45]
    /\ durOut.value = 5445

\* C7 (as stated): duration parsing never throws, and every argument that
\* is not a well-formed duration (empty, garbage or missing) yields 0.
C7_UnparsableYieldsZero ==
    (Parsed /\ ~WellFormedDuration(durIn)) =>
        /\ durOut.thrown = "none"
        /\ durOut.value = 0

\* ------------------------------------------------------------------------
\* Properties of the Shorts classification (SpecShorts)
\* ------------------------------------------------------------------------
Analyzed == shPc = "analyzed"

SameRate(a, b) ==
    /\ ~RatioLess(a.engagementRate, b.engagementRate)
    /\ ~RatioLess(b.engagementRate, a.engagementRate)

\* 0-based position of item i of batch s once s is sorted descending by the
\* ranking key, equal keys keeping their order.
RankIn(s, i) ==
    Cardinality({j \in 1..Len(s) : RatioLess(s[i].engagementRate, s[j].engagementRate)})
        + Cardinality({j \in 1..(i - 1) : SameRate(s[i], s[j])})

\* The tier of the percentile rank / size by the threshold table
TierOf(rank, size) ==
    IF 100 * rank < 10 * size THEN "VIRAL"
    ELSE IF 100 * rank < 30 * size THEN "EXCELLENT"
    ELSE IF 100 * rank < 60 * size THEN "GOOD"
    ELSE IF 100 * rank < 80 * size THEN "AVERAGE"
    ELSE "POOR"

ShortsOfBatch == SelectSeq(shVideos.videos, LAMBDA v : v.duration > 0 /\ v.duration <= 60)

TiersPresent == {shShorts[i].performance : i \in 1..Len(shShorts)}

\* C8: every item of the classified batch gets the tier of the percentile
\* rank/batchSize, rank being its 0-based position in the batch sorted
\* descending by the ranking key: < 0.10 VIRAL, < 0.30 EXCELLENT,
\* < 0.60 GOOD, < 0.80 AVERAGE, otherwise POOR.
C8_TierByPercentile ==
    Analyzed =>
        /\ Len(shShorts) = Len(ShortsOfBatch)
        /\ \A i \in 1..Len(shShorts) :
               /\ shShorts[i].id = ShortsOfBatch[i].id
               /\ shShorts[i].performance = TierOf(RankIn(shShorts, i), Len(shShorts))

\* C8 witness: a classified batch of ten shorts, not in ranking order, in
\* which all five tiers occur.
C8_Witness ==
    /\ Analyzed
    /\ Len(shShorts) = 10
    /\ TiersPresent = {"VIRAL", "EXCELLENT", "GOOD", "AVERAGE", "POOR"}
    /\ RankIn(shShorts, 1) # 0

\* C9 (as stated): classifying a batch of exactly one item returns that
\* item with tier VIRAL.
C9_SingletonIsViral ==
    (Analyzed /\ Len(shVideos.videos) = 1) =>
        /\ Len(shShorts) = 1
        /\ shShorts[1].id = shVideos.videos[1].id
        /\ shShorts[1].performance = "VIRAL"

\* C9 (as amended): classifying a batch of exactly one item returns that
\* item with tier VIRAL when the item is a Short (0 < duration <= 60
\* seconds), and returns nothing when it is not.
C9_SingleShortIsViral ==
    (Analyzed /\ Len(shVideos.videos) = 1) =>
        IF shVideos.videos[1].duration > 0 /\ shVideos.videos[1].duration <= 60
        THEN /\ Len(shShorts) = 1
             /\ shShorts[1].id = shVideos.videos[1].id
             /\ shShorts[1].performance = "VIRAL"
        ELSE shShorts = <<>>

\* C9 witness: a batch of one Short has been classified.
C9_Witness ==
    /\ Analyzed
    /\ Len(shVideos.videos) = 1
    /\ shVideos.videos[1].duration = 60
    /\ Len(shShorts) = 1
    /\ shShorts[1].performance = "VIRAL"

DistinctRates(s) ==
    \A i \in 1..Len(s) : \A j \in 1..Len(s) : i # j => ~SameRate(s[i], s[j])

\* C10: in a classified batch of 10 items with strictly distinct ranking
\* keys exactly one item is VIRAL, and it is the item with the highest key.
C10_OneViralOfTen ==
    (Analyzed /\ Len(shShorts) = 10 /\ DistinctRates(shShorts)) =>
        \E i \in 1..10 :
            /\ shShorts[i].performance = "VIRAL"
            /\ \A j \in 1..10 :
                   j # i => /\ shShorts[j].performance # "VIRAL"
                            /\ RatioLess(shShorts[j].engagementRate,
                                         shShorts[i].engagementRate)

\* C10 witness: ten shorts with distinct keys have been classified and the
\* VIRAL one is neither the first nor the last of the batch.
C10_Witness ==
    /\ Analyzed
    /\ Len(shShorts) = 10
    /\ DistinctRates(shShorts)
    /\ shShorts[1].performance # "VIRAL"
    /\ shShorts[10].performance # "VIRAL"
    /\ "VIRAL" \in TiersPresent

TierIndex(tier) ==
    CASE tier = "VIRAL" -> 0
      [] tier = "EXCELLENT" -> 1
      [] tier = "GOOD" -> 2
      [] tier = "AVERAGE" -> 3
      [] OTHER -> 4

\* C11: the ranking is a stable descending sort (an item never gets a
\* better tier than an item with a larger key, nor than an earlier item
\* with an equal key), all ranks of a batch differ and the tier is the
\* table's value at the item's own rank, and classifying the same batch
\* again in the same order gives the same tier to every item.
C11_StableRankDeterministic ==
    Analyzed =>
        /\ \A i \in 1..Len(shShorts) : \A j \in 1..Len(shShorts) :
               /\ (RatioLess(shShorts[j].engagementRate, shShorts[i].engagementRate)
                       \/ (SameRate(shShorts[i], shShorts[j]) /\ i < j))
                      => /\ RankIn(shShorts, i) < RankIn(shShorts, j)
                         /\ TierIndex(shShorts[i].performance)
                                <= TierIndex(shShorts[j].performance)
               /\ RankIn(shShorts, i) = RankIn(shShorts, j)
                      => shShorts[i].performance = shShorts[j].performance
        /\ \A i \in 1..Len(shShorts) :
               TierIndex(shShorts[i].performance)
                   = TierIndex(TierOf(RankIn(shShorts, i), Len(shShorts)))
        /\ \A i \in 1..Len(shShorts) :
               analyzeShortsPerformance(shVideos.videos,
                                        shVideos.subscriberCount)[i].performance
                   = shShorts[i].performance

\* C11 witness: two shorts with the same key have been classified; the one
\* that comes first in the batch is VIRAL and the other is not.
C11_Witness ==
    /\ Analyzed
    /\ Len(shShorts) >= 2
    /\ \E i \in 1..Len(shShorts) : \E j \in 1..Len(shShorts) :
           /\ i < j
           /\ SameRate(shShorts[i], shShorts[j])
           /\ shShorts[i].performance = "VIRAL"
           /\ shShorts[j].performance # "VIRAL"

IsExampleBatch ==
    /\ Len(shVideos.videos) = 3
    /\ {shVideos.videos[i].likeCount : i \in 1..3} = {100, 10, 500}
    /\ \A i \in 1..3 : shVideos.videos[i].viewCount = 1000

TierOfLikes(likes) ==
    {shShorts[i].performance : i \in {k \in 1..Len(shShorts) : shShorts[k].likeCount = likes}}

\* C12 (as stated): in the batch of A (100 likes), B (10 likes) and
\* C (500 likes) C is VIRAL, A is EXCELLENT or GOOD and B is POOR.
C12_ExampleLowestIsPoor ==
    (Analyzed /\ IsExampleBatch) =>
        /\ TierOfLikes(500) = {"VIRAL"}
        /\ TierOfLikes(100) \subseteq {"EXCELLENT", "GOOD"}
        /\ TierOfLikes(100) # {}
        /\ TierOfLikes(10) = {"POOR"}

\* C12 (as amended): in the batch of the three shorts A, B and C, in any
\* input order, C (rank 0) is VIRAL, A (rank 1, percentile 33.3) is GOOD
\* and B (rank 2, percentile 66.7) is AVERAGE.
C12_ExampleTiers ==
    (Analyzed /\ IsExampleBatch) =>
        /\ Len(shShorts) = 3
        /\ TierOfLikes(500) = {"VIRAL"}
        /\ TierOfLikes(100) = {"GOOD"}
        /\ TierOfLikes(10) = {"AVERAGE"}

\* C12 witness: the three shorts arrived as B, A, C and have been classified.
C12_Witness ==
    /\ Analyzed
    /\ IsExampleBatch
    /\ shVideos.videos[1].likeCount = 10
    /\ shVideos.videos[3].likeCount = 500
    /\ Len(shShorts) = 3
    /\ shShorts[3].performance = "VIRAL"

\* ------------------------------------------------------------------------
\* Properties of the Shorts summary (SpecShorts)
\* ------------------------------------------------------------------------
Summarized == shPc = "summarized"

\* C16: summarizing an empty batch returns a summary with every count 0,
\* every average 0, bestPerformer and worstPerformer null and a non-empty
\* recommendation list.
C16_EmptySummary ==
    (Summarized /\ shShorts = <<>>) =>
        /\ shSummary.totalShorts = 0
        /\ shSummary.viralCount = 0
        /\ shSummary.poorCount = 0
        /\ shSummary.avgViews = 0
        /\ shSummary.avgEngagement.num = 0
        /\ shSummary.bestPerformer.null
        /\ shSummary.worstPerformer.null
        /\ Len(shSummary.recommendations) >= 1

\* C16 witness: a batch without a single Short was classified to the empty
\* list, and the empty list has been summarized.
C16_Witness ==
    /\ Summarized
    /\ shShorts = <<>>
    /\ Len(shVideos.videos) >= 1
    /\ shSummary.totalShorts = 0
    /\ Len(shSummary.recommendations) = 1

Lcm(a, b) == (a \div Gcd(a, b)) * b

\* A common denominator of the engagement rates of a batch
CommonDen(s) ==
    LET f[k \in 0..Len(s)] == IF k = 0 THEN 1 ELSE Lcm(f[k - 1], s[k].engagementRate.den)
    IN  f[Len(s)]

\* The sum of the engagement rates of a batch, in units of 1/CommonDen
RateSum(s) ==
    LET D == CommonDen(s)
        f[k \in 0..Len(s)] ==
            IF k = 0 THEN 0
            ELSE f[k - 1] + s[k].engagementRate.num * (D \div s[k].engagementRate.den)
    IN  f[Len(s)]

ViewSum(s) ==
    LET f[k \in 0..Len(s)] == IF k = 0 THEN 0 ELSE f[k - 1] + s[k].viewCount
    IN  f[Len(s)]

EngagementIsMean ==
    shSummary.avgEngagement.num * (CommonDen(shShorts) * Len(shShorts))
        = RateSum(shShorts) * shSummary.avgEngagement.den

\* C17 (as stated): for a non-empty batch avgViews is the arithmetic mean
\* of viewCount and avgEngagement the arithmetic mean of engagementRate.
C17_AveragesAreMeans ==
    (Summarized /\ shShorts # <<>>) =>
        /\ shSummary.avgViews * Len(shShorts) = ViewSum(shShorts)
        /\ EngagementIsMean

\* C17 (as amended): for a non-empty batch avgViews is the arithmetic mean
\* of viewCount rounded to the nearest integer, a half going up, and
\* avgEngagement is the arithmetic mean of engagementRate.
C17_RoundedMeanViews ==
    (Summarized /\ shShorts # <<>>) =>
        LET n == Len(shShorts)
            excess == 2 * (shSummary.avgViews * n - ViewSum(shShorts))
        IN  /\ -n < excess
            /\ excess <= n
            /\ EngagementIsMean

\* C17 witness: two shorts of 100 and 101 views and of rates 1% and 0 have
\* been summarized: avgViews is 101 and avgEngagement 1/200.
C17_Witness ==
    /\ Summarized
    /\ Len(shShorts) = 2
    /\ shShorts[1].viewCount = 100
    /\ shShorts[2].viewCount = 101
    /\ shSummary.avgViews = 101
    /\ shSummary.avgEngagement.num * 200 = shSummary.avgEngagement.den

MaxViews(s) == CHOOSE m \in {s[i].viewCount : i \in 1..Len(s)} :
                   \A i \in 1..Len(s) : s[i].viewCount <= m

MinViews(s) == CHOOSE m \in {s[i].viewCount : i \in 1..Len(s)} :
                   \A i \in 1..Len(s) : s[i].viewCount >= m

FirstWith(s, views) == CHOOSE i \in 1..Len(s) :
                           /\ s[i].viewCount = views
                           /\ \A j \in 1..(i - 1) : s[j].viewCount # views

LastWith(s, views) == CHOOSE i \in 1..Len(s) :
                          /\ s[i].viewCount = views
                          /\ \A j \in (i + 1)..Len(s) : s[j].viewCount # views

\* C18: in the summary of a non-empty batch bestPerformer is the first item
\* in input order among those of maximum viewCount and worstPerformer is
\* the last item in input order among those of minimum viewCount.
C18_BestAndWorst ==
    (Summarized /\ shShorts # <<>>) =>
        /\ ~shSummary.bestPerformer.null
        /\ ~shSummary.worstPerformer.null
        /\ shSummary.bestPerformer.video
               = shShorts[FirstWith(shShorts, MaxViews(shShorts))]
        /\ shSummary.worstPerformer.video
               = shShorts[LastWith(shShorts, MinViews(shShorts))]

\* C18 witness: nine or more summarized shorts all have the same viewCount,
\* so all share the maximum and the minimum: best is the first of the
\* batch and worst the last.
C18_Witness ==
    /\ Summarized
    /\ Len(shShorts) >= 9
    /\ \A i \in 1..Len(shShorts) : shShorts[i].viewCount = 100
    /\ shSummary.bestPerformer.video = shShorts[1]
    /\ shSummary.worstPerformer.video = shShorts[Len(shShorts)]
    /\ shShorts[1] # shShorts[Len(shShorts)]

TierCount(tier) == Cardinality({i \in 1..Len(shShorts) : shShorts[i].performance = tier})

\* The predicate of each threshold rule on the summarized batch
RuleHolds(rule) ==
    LET n == Len(shShorts)
    IN  CASE rule = "lowViral" -> TierCount("VIRAL") * 100 < 5 * n
          [] rule = "highViral" -> TierCount("VIRAL") * 100 > 15 * n
          [] rule = "lowEngagement" ->
                 RateSum(shShorts) * 100 < CommonDen(shShorts) * n
          [] rule = "highEngagement" ->
                 RateSum(shShorts) * 100 > 5 * CommonDen(shShorts) * n
          [] rule = "manyPoor" -> TierCount("POOR") * 100 > 30 * n
          [] rule = "fewShorts" -> n < 10
          [] OTHER -> FALSE

ThresholdRules ==
    <<"lowViral", "highViral", "lowEngagement", "highEngagement", "manyPoor", "fewShorts">>

RulePosition(rule) ==
    IF \E k \in 1..6 : ThresholdRules[k] = rule
    THEN CHOOSE k \in 1..6 : ThresholdRules[k] = rule
    ELSE 7

\* C19: the recommendation list of a non-empty batch contains the message
\* of every threshold rule whose predicate holds (viral ratio < 5%,
\* viral ratio > 15%, mean engagement < 1%, mean engagement > 5%, poor
\* ratio > 30%, fewer than 10 items), whatever the other rules decide, and
\* its messages stand in rule order.
C19_EveryRuleInOrder ==
    (Summarized /\ shShorts # <<>>) =>
        LET R == shSummary.recommendations
        IN  /\ \A k \in 1..6 :
                   RuleHolds(ThresholdRules[k]) =>
                       \E i \in 1..Len(R) : R[i].rule = ThresholdRules[k]
            /\ \A i \in 1..Len(R) : \A j \in 1..Len(R) :
                   i < j => RulePosition(R[i].rule) < RulePosition(R[j].rule)

\* C19 witness: a summarized batch for which four rules hold at once (low
\* viral ratio, low engagement, many poor shorts, few shorts); the list
\* holds their four messages in that order.
C19_Witness ==
    /\ Summarized
    /\ shShorts # <<>>
    /\ RuleHolds("lowViral")
    /\ RuleHolds("lowEngagement")
    /\ RuleHolds("manyPoor")
    /\ RuleHolds("fewShorts")
    /\ Len(shSummary.recommendations) = 4
    /\ shSummary.recommendations[1].rule = "lowViral"
    /\ shSummary.recommendations[4].rule = "fewShorts"

\* C20 (as stated): when no threshold rule fires for a non-empty batch
\* (viral ratio within 5%..15%, mean engagement within 1%..5%, poor ratio
\* at most 30%, at least 10 items) the recommendation list is exactly the
\* one default encouragement string.
C20_DefaultWhenNoRuleFires ==
    (Summarized /\ shShorts # <<>>
        /\ \A k \in 1..6 : ~RuleHolds(ThresholdRules[k])) =>
        /\ Len(shSummary.recommendations) = 1
        /\ shSummary.recommendations[1].rule = "default"



\* ------------------------------------------------------------------------
Filtered == flPc = "filtered"

\* The threshold T of the call
ThresholdOf(call) == IF call.given THEN call.shortsMaxDuration ELSE 60

DurationsOf(videos) == [i \in 1..Len(videos) |-> videos[i].duration]

\* C14: with threshold T the filter returns, in input order, exactly the
\* items with 0 < duration <= T for SHORTS, exactly the items with
\* duration > T for LONG and the unchanged batch for ALL; an item of
\* duration 0 is in neither the SHORTS nor the LONG result.
C14_FilterByDuration ==
    Filtered =>
        LET T == ThresholdOf(flIn)
        IN  /\ flIn.type = "SHORTS" =>
                   flOut = SelectSeq(flIn.videos, LAMBDA v : 0 < v.duration /\ v.duration <= T)
            /\ flIn.type = "LONG" =>
                   flOut = SelectSeq(flIn.videos, LAMBDA v : v.duration > T)
            /\ flIn.type = "ALL" => flOut = flIn.videos
            /\ flIn.type # "ALL" =>
                   \A i \in 1..Len(flOut) : flOut[i].duration # 0

\* C14 witness: the batch of durations 30, 200, 0 filtered with threshold
\* 60 for SHORTS gives the item of 30 seconds alone.
C14_Witness ==
    /\ Filtered
    /\ DurationsOf(flIn.videos) = <<30, 200, 0>>
    /\ flIn.type = "SHORTS"
    /\ flIn.given
    /\ flIn.shortsMaxDuration = 60
    /\ DurationsOf(flOut) = <<30>>
    /\ flOut[1].id = 1


\* ------------------------------------------------------------------------
\* f(viewCount, likeCount, commentCount) of the scoring engine, in hundredths
IsScoreOf(p, v, l, c) ==
    IF v = 0 THEN p = 0 ELSE 2 * Abs(p * v - (600 * l + 400 * c) * 100) <= v

ScoreFromCounters(video) ==
    IsScoreOf(video.popularityScore, video.viewCount, video.likeCount,
              video.commentCount)

\* C4: every scored item the application holds, after any sequence of
\* searches, filters and top/bottom selections, has
\* popularityScore = f(viewCount, likeCount, commentCount).
C4_ScoreFromCounters ==
    /\ \A i \in 1..Len(analysisResult.videos) :
           ScoreFromCounters(analysisResult.videos[i])
    /\ \A i \in 1..Len(shortsAnalysis.videos) :
           ScoreFromCounters(shortsAnalysis.videos[i])

\* C4 witness: a settled CHANNEL search shows a filtered, sorted selection
\* whose first item has a score that needed rounding.
C4_Witness ==
    /\ appRun.pc = "idle"
    /\ ~isLoading
    /\ analysisResult.set
    /\ Len(analysisResult.videos) >= 2
    /\ analysisResult.videos[1].popularityScore = 17143
    /\ analysisResult.videos[1].viewCount = 7
    /\ analysisResult.videos[1].id # 1
    /\ analysisResult.videos[2].popularityScore < 17143

\* The Shorts among the fetched videos of the run, in input order
ShortsOfDetails ==
    SelectSeq(appRun.videoDetails, LAMBDA v : v.duration > 0 /\ v.duration <= 60)

\* A search of the given type has set analysisResult from appRun.videoDetails.
Shown(type) ==
    /\ appRun.pc \in {"strategy", "idle"}
    /\ analysisResult.set
    /\ appRun.analysisType = type

\* The fetched videos the video-type filter of the run lets through
KeptDetails ==
    CASE appRun.videoTypeFilter = "SHORTS" ->
             SelectSeq(appRun.videoDetails, LAMBDA v : 0 < v.duration /\ v.duration <= 180)
      [] appRun.videoTypeFilter = "LONG" ->
             SelectSeq(appRun.videoDetails, LAMBDA v : v.duration > 180)
      [] OTHER -> appRun.videoDetails

ScoresOf(videos) == [i \in 1..Len(videos) |-> videos[i].popularityScore]

IdsOf(videos) == {videos[i].id : i \in 1..Len(videos)}

\* C13 (as stated): the scores 10, 50, 5, 80, 20 give 80, 50, 20 for TOP
\* (count 3) and 5, 10 for BOTTOM (count 2).
C13_SelectionOfGivenCount ==
    (Shown("CHANNEL") /\ appRun.videoDetails = SelectionExample
        /\ appRun.videoTypeFilter = "ALL") =>
        IF appRun.channelView = "TOP"
        THEN ScoresOf(analysisResult.videos) = <<8000, 5000, 2000>>
        ELSE ScoresOf(analysisResult.videos) = <<500, 1000>>

\* C13 (as amended): the selection count is 10.  TOP shows the 10 videos
\* of highest popularityScore, highest first, BOTTOM the 10 of lowest
\* popularityScore, lowest first, and a batch of fewer than 10 is shown
\* whole in that order; the scores 10, 50, 5, 80, 20 give 80, 50, 20, 10, 5
\* for TOP and 5, 10, 20, 50, 80 for BOTTOM.
C13_SelectionOfTen ==
    Shown("CHANNEL") =>
        LET shown == analysisResult.videos
            kept == KeptDetails
            rest == {i \in 1..Len(kept) : kept[i].id \notin IdsOf(shown)}
            top == appRun.channelView = "TOP"
        IN  /\ Len(shown) = (IF Len(kept) < 10 THEN Len(kept) ELSE 10)
            /\ \A i \in 1..Len(shown) : \E k \in 1..Len(kept) : kept[k] = shown[i]
            /\ \A i \in 1..Len(shown) : \A j \in 1..Len(shown) :
                   /\ i # j => shown[i].id # shown[j].id
                   /\ (i < j /\ top) => shown[i].popularityScore >= shown[j].popularityScore
                   /\ (i < j /\ ~top) => shown[i].popularityScore <= shown[j].popularityScore
            /\ \A i \in 1..Len(shown) : \A k \in rest :
                   IF top THEN kept[k].popularityScore <= shown[i].popularityScore
                   ELSE kept[k].popularityScore >= shown[i].popularityScore
            /\ (appRun.videoDetails = SelectionExample /\ appRun.videoTypeFilter = "ALL") =>
                   ScoresOf(shown) = (IF top THEN <<8000, 5000, 2000, 1000, 500>>
                                      ELSE <<500, 1000, 2000, 5000, 8000>>)

\* C13 witness: a TOP selection out of twelve or more videos shows ten of
\* them, the first scoring more than the last, and leaves out the rest.
C13_Witness ==
    /\ Shown("CHANNEL")
    /\ appRun.channelView = "TOP"
    /\ Len(KeptDetails) >= 12
    /\ Len(analysisResult.videos) = 10
    /\ analysisResult.videos[1].popularityScore > analysisResult.videos[10].popularityScore
    /\ analysisResult.videos[1].id # KeptDetails[1].id

\* C15 (as stated): in channel and keyword analysis the SHORTS filter keeps
\* exactly the videos shorter than 3 minutes and the LONG filter exactly
\* the videos of 3 minutes or longer (so each fetched video is under
\* exactly one of the two); checked on responses of at most 10 videos,
\* of which the selection drops none.
C15_ThreeMinuteSplit ==
    ((Shown("CHANNEL") \/ Shown("KEYWORD")) /\ Len(appRun.videoDetails) <= 10) =>
        LET fetched == appRun.videoDetails
        IN  /\ appRun.videoTypeFilter = "SHORTS" =>
                   IdsOf(analysisResult.videos)
                       = {fetched[i].id : i \in {k \in 1..Len(fetched) : fetched[k].duration < 180}}
            /\ appRun.videoTypeFilter = "LONG" =>
                   IdsOf(analysisResult.videos)
                       = {fetched[i].id : i \in {k \in 1..Len(fetched) : fetched[k].duration >= 180}}

\* C21: no classification, selection, filtering or summary mutates its
\* input.  When the handler resumes with the array getVideoDetails resolved
\* with and filters, sorts, selects, classifies or summarizes, that array
\* holds afterwards the same items in the same order, and the classified
\* list handed to the summary is, after the summary, as the classification
\* returned it.
C21_InputsNotMutated ==
    [][(appRun.pc = "resolved" /\ appRun'.pc # "resolved") =>
           /\ appRun'.videoDetails = appRun.videoDetails
           /\ (shortsAnalysis'.set /\ appRun.analysisType = "SHORTS_MANAGEMENT") =>
                  \A i \in 1..Len(shortsAnalysis'.videos) :
                      /\ i <= Len(ShortsOfDetails)
                      /\ shortsAnalysis'.videos[i].id = ShortsOfDetails[i].id]_vars

\* C21 witness: a settled CHANNEL search without a type filter showed its
\* TOP selection, and the fetched array is not in ascending score order.
C21_Witness ==
    /\ appRun.pc = "idle"
    /\ appRun.analysisType = "CHANNEL"
    /\ appRun.videoTypeFilter = "ALL"
    /\ analysisResult.set
    /\ Len(appRun.videoDetails) >= 2
    /\ appRun.videoDetails[1].popularityScore > appRun.videoDetails[2].popularityScore
    /\ analysisResult.videos[1].id # appRun.videoDetails[1].id

\* ------------------------------------------------------------------------
\* Reading delimited text back: a comma or newline after an even number of
\* quotes separates cells or records, a cell that starts and ends with a
\* quote is read without them, and a doubled quote inside it stands for one
\* quote.
\* ------------------------------------------------------------------------
QuotesBefore(text, i) == Cardinality({j \in 1..(i - 1) : text[j] = Quote})

SeparatorsOf(text, ch) ==
    {i \in 1..Len(text) : text[i] = ch /\ QuotesBefore(text, i) % 2 = 0}

\* The pieces of text between its separators ch
CutAt(text, ch) ==
    LET seps == SeparatorsOf(text, ch)
        nth(k) == IF k = 0 THEN 0
                  ELSE IF k > Cardinality(seps) THEN Len(text) + 1
                  ELSE CHOOSE i \in seps : Cardinality({j \in seps : j < i}) = k - 1
    IN  [k \in 1..(Cardinality(seps) + 1) |-> SubSeq(text, nth(k - 1) + 1, nth(k) - 1)]

Undouble(str) ==
    LET f[k \in 1..(Len(str) + 2)] ==
            IF k > Len(str) THEN <<>>
            ELSE IF str[k] = Quote /\ k < Len(str) /\ str[k + 1] = Quote
            THEN <<Quote>> \o f[k + 2]
            ELSE <<str[k]>> \o f[k + 1]
    IN  f[1]

ReadCell(cell) ==
    IF Len(cell) >= 2 /\ cell[1] = Quote /\ cell[Len(cell)] = Quote
    THEN Undouble(SubSeq(cell, 2, Len(cell) - 1))
    ELSE cell

ReadCsv(text) ==
    LET lines == CutAt(text, Newline)
    IN  [r \in 1..Len(lines) |->
            LET cells == CutAt(lines[r], Comma)
            IN  [h \in 1..Len(cells) |-> ReadCell(cells[h])]]

HasSpecial(str) == includes(str, Comma) \/ includes(str, Quote) \/ includes(str, Newline)

Wrapped(str) == <<Quote>> \o doubleQuotes(str) \o <<Quote>>

\* The cells of the exported records as they were given
GivenCells ==
    IF csvIn.by = "convertToCSV"
    THEN [r \in 1..Len(csvIn.data) |->
             [h \in 1..Len(CsvHeaders) |-> StringOf(csvIn.data[r][h])]]
    ELSE [r \in 1..Len(csvIn.videos) |->
             LET v == csvIn.videos[r]
             IN  <<v.title, ToDigits(v.viewCount), ToDigits(v.likeCount),
                   ToDigits(v.commentCount), ToDigits(v.duration),
                   scoreString(v.popularityScore), v.publishedAt, linkOf(v.id)>>]

GivenHeaders == IF csvIn.by = "convertToCSV" THEN CsvHeaders ELSE DownloadHeaders

\* The exported text without its byte-order mark
CsvText == IF csvOut # <<>> /\ Head(csvOut) = BOM THEN Tail(csvOut) ELSE csvOut

\* C22: in the CSV export every cell that contains a comma, a quote or a
\* newline is written wrapped in quotes with each quote inside it doubled,
\* and the exported text reads back as the header followed, record by
\* record, by exactly the cells that were given.
C22_EscapedCellsReadBack ==
    (csvPc = "exported" /\ csvOut # <<>>) =>
        /\ ReadCsv(CsvText) = <<GivenHeaders>> \o GivenCells
        /\ CsvText = Join(<<Join(GivenHeaders, Comma)>>
                              \o [r \in 1..Len(GivenCells) |->
                                     Join([h \in 1..Len(GivenCells[r]) |->
                                              IF HasSpecial(GivenCells[r][h])
                                                 \/ (csvIn.by = "handleDownloadCSV" /\ h = 1)
                                              THEN Wrapped(GivenCells[r][h])
                                              ELSE GivenCells[r][h]], Comma)],
                          Newline)

\* C22 witness: a record with a cell made of a quote and a comma was
\* exported by convertToCSV.
C22_Witness ==
    /\ csvPc = "exported"
    /\ csvIn.by = "convertToCSV"
    /\ csvIn.data[1][2] = StringValue(<<Quote, Comma>>)
    /\ csvOut = <<"k", Comma, "v", Newline>> \o StringOf(csvIn.data[1][1])
                    \o <<Comma, Quote, Quote, Quote, Comma, Quote>>
    /\ StringOf(csvIn.data[1][1]) = <<"1", "2">>

\* The calls that have returned
ReturnedCalls == {c \in ClientCalls : clCalls[c].pc = "done"}

\* C23: a call returns the cached snapshot, without a request, only when
\* it was made without forceRefresh and the entry is no older than cacheTTL;
\* the entry it returns was not written before the last clearCache that
\* preceded the call, and a call made with forceRefresh returns a snapshot
\* that arrived after the call was made (or the bundled sample).
C23_CacheHonoursTtlAndInvalidation ==
    \A c \in ReturnedCalls :
        LET call == clCalls[c]
        IN  /\ call.result.kind = "cache" =>
                   /\ ~call.forceRefresh
                   /\ call.tried = <<>>
                   /\ call.result.age <= CacheTTL
                   /\ call.result.seq > call.cleared
            /\ call.result.kind # "cache" => call.tried # <<>>
            /\ call.forceRefresh =>
                   \/ call.result.data = SampleSnapshot
                   \/ call.result.data.seq > call.startSeq

\* C23 witness: a call without forceRefresh returned an entry exactly
\* cacheTTL old, written after a clearCache.
C23_Witness ==
    \E c \in ReturnedCalls :
        /\ clCalls[c].result.kind = "cache"
        /\ clCalls[c].result.age = CacheTTL
        /\ clCalls[c].cleared > 0

\* C24: fetchOntologySnapshot never rejects, and a call that goes to the
\* network returns the API snapshot when the API fetch succeeds, the
\* exported-file snapshot when the API fetch fails and the file fetch
\* succeeds, and the bundled sample when both fail; the file export is
\* asked only after the API failed.
C24_SourcesInOrder ==
    \A c \in ClientCalls :
        LET call == clCalls[c]
            failed(source) == [source |-> source, ok |-> FALSE]
            worked(source) == [source |-> source, ok |-> TRUE]
        IN  /\ call.pc \in {"idle", "api", "file", "done"}
            /\ call.pc = "api" => call.tried = <<>>
            /\ call.pc = "file" => call.tried = <<failed("api")>>
            /\ call.pc = "done" =>
                   /\ call.result.kind \in {"cache", "api", "file", "sample"}
                   /\ call.result.kind = "api" <=> call.tried = <<worked("api")>>
                   /\ call.result.kind = "file"
                          <=> call.tried = <<failed("api"), worked("file")>>
                   /\ call.result.kind = "sample"
                          <=> call.tried = <<failed("api"), failed("file")>>
                   /\ call.result.kind = "cache" <=> call.tried = <<>>
                   /\ call.result.kind \in {"api", "file"}
                          => call.result.data.source = call.result.kind
                   /\ call.result.kind = "sample" => call.result.data = SampleSnapshot

\* C24 witness: a call returned the exported-file snapshot after the API
\* failed, and another returned the sample after both failed.
C24_Witness ==
    /\ clCalls[1].pc = "done"
    /\ clCalls[1].result.kind = "file"
    /\ clCalls[2].pc = "done"
    /\ clCalls[2].result.kind = "sample"

\* The fetches in the log of the retryFetch call
FetchesSoFar == SelectSeq(rtLog, LAMBDA e : e.kind = "fetch")

\* The log is fetch 1, sleep 2 s, fetch 2, sleep 4 s, fetch 3, ... : the k-th
\* fetch is attempt k, every fetch but the last one failed, and between
\* attempt k and attempt k + 1 there is one sleep of 2^k seconds.
RetryLogInOrder ==
    /\ Len(FetchesSoFar) <= rtRetryAttempts
    /\ \A i \in 1..Len(rtLog) :
           IF i % 2 = 1
           THEN /\ rtLog[i].kind = "fetch"
                /\ rtLog[i].attempt = (i + 1) \div 2
                /\ i < Len(rtLog) => ~rtLog[i].ok
           ELSE /\ rtLog[i].kind = "sleep"
                /\ rtLog[i].attempt = i \div 2
                /\ rtLog[i].ms = (2 ^ (i \div 2)) * 1000
    /\ rtPc = "returned" =>
           /\ rtLog # <<>>
           /\ rtLog[Len(rtLog)].kind = "fetch"
           /\ rtLog[Len(rtLog)].ok
           /\ rtOut.kind = "returned"
           /\ rtOut.attempt = rtLog[Len(rtLog)].attempt
    /\ rtPc = "thrown" =>
           /\ Len(FetchesSoFar) = rtRetryAttempts
           /\ rtLog[Len(rtLog)].kind = "fetch"
           /\ ~rtLog[Len(rtLog)].ok
           /\ rtOut.kind = "thrown"
           /\ rtOut.error = rtLog[Len(rtLog)].error
           /\ rtOut.error.attempt = rtRetryAttempts

\* C25: retryFetch ends after at most retryAttempts fetches: it returns the
\* first ok response; when every attempt throws or answers with a non-ok
\* status it throws the error of the last attempt; it sleeps 2^attempt
\* seconds between consecutive attempts and not after the last one.
C25_RetryFetchTerminates ==
    /\ []RetryLogInOrder
    /\ (rtPc = "fetching") ~> (rtPc \in {"returned", "thrown"})

\* C25 witness: with four attempts configured, the call threw the error of
\* the fourth attempt after sleeping 2, 4 and 8 seconds.
C25_Witness ==
    /\ rtPc = "thrown"
    /\ rtRetryAttempts = 4
    /\ rtOut.error = [message |-> <<"HTTP", 500>>, attempt |-> 4]
    /\ [i \in 1..3 |-> rtLog[2 * i].ms] = <<2000, 4000, 8000>>

\* The loadOntology calls in flight
LoadsInFlight == {l \in LoadIds : stLoads[l].pc # "idle"}

\* C26 (as stated): the loading flag of the store is true exactly while
\* some loadOntology call is in flight, also when calls overlap.
C26_LoadingWhileInFlight == stLoading <=> LoadsInFlight # {}

\* C27: whenever the snapshot of the store is not null, the entities list
\* of the store and snapshot.entities hold the same entities with the same
\* field values in the same order.
C27_EntitiesMirrorSnapshot == ~stSnapshot.null => stEntities = stSnapshot.entities

\* C27 witness: after a load, updateEntity changed the second of two
\* entities (its status, then its id) in both lists.
C27_Witness ==
    /\ ~stSnapshot.null
    /\ Len(stEntities) = 2
    /\ stEntities[1] = Entity("e1", "a", "a", "active")
    /\ stEntities[2] = Entity("e1", "b", "B", "done")
    /\ stSnapshot.entities[2].status = "done"

\* The loadOntology calls in flight that refreshOntology started
RefreshLoads == {l \in LoadsInFlight : stLoads[l].byRefresh}

\* C28: at most one loadOntology call started by refreshOntology is in
\* flight, and the in-flight flag (and isRefreshing) is set exactly while
\* that call is in flight: it is cleared when the load ends, successfully or
\* not.
C28_RefreshSingleFlight ==
    /\ Cardinality(RefreshLoads) <= 1
    /\ refreshInFlightRef <=> RefreshLoads # {}
    /\ isRefreshing = refreshInFlightRef

\* C28 witness: the App is mounted with auto-refresh on, a refresh has
\* ended and none is in flight, and the store holds the error of a failed
\* load.
C28_Witness ==
    /\ apMounted
    /\ stError # "null"
    /\ ~refreshInFlightRef
    /\ lastRefreshTime = "time"
    /\ RefreshLoads = {}
    /\ autoRefreshEnabled

\* The handleSearch runs in flight
SearchesInFlight == {r \in SearchRuns : seRuns[r].pc # "idle"}

\* C29 (as stated): while a search is in flight no second handleSearch run
\* starts, so at most one run is in flight, isLoading is true while it is,
\* and once nothing is in flight isLoading is false and the result, the
\* strategy and the error shown are those of the search started last.
C29_SearchSingleFlight ==
    /\ Cardinality(SearchesInFlight) <= 1
    /\ SearchesInFlight # {} => seIsLoading
    /\ SearchesInFlight = {} =>
           /\ ~seIsLoading
           /\ seResult \in {0, seStarted}
           /\ seStrategy \in {0, seStarted}
           /\ seError \in {0, seStarted}

\* C30 (as stated): testStatus is SUCCESS only when the key in the input is
\* the key that testApiKey reported valid.
C30_SuccessIsForCurrentKey ==
    kyStatus = "SUCCESS" => (kyTested = kyInput /\ kyInput \in ValidKeys)

====
